---- MODULE Spec2Model ----
(***************************************************************************)
(* A model of the InstaAutomator dashboard: the upload flow of app.py, the *)
(* validation, enrichment, filtering and aggregation of                    *)
(* utils/data_processor.py, the filter call of the Analytics page, the     *)
(* rankings and trends of utils/analytics.py, the CSV export of the        *)
(* Reports page and the calendar and ideas of utils/content_planner.py.    *)
(*                                                                         *)
(* A DataFrame is a record [columns, rows]; a row is a record with one     *)
(* cell per column plus its index label.  Numbers are exact rationals      *)
(* n/d with the IEEE specials NaN, +inf and -inf kept apart, because the   *)
(* code divides by a reach that may be 0.  A timestamp counts hours from   *)
(* 2024-01-01 00:00, a Monday.  A string that the code formats or parses   *)
(* is the sequence of its characters.  A dict is the set of its entries.   *)
(***************************************************************************)
EXTENDS Integers, Sequences, FiniteSets, TLC

VARIABLES
    uploaded_file,   \* the file_uploader widget: None or Some(parsed CSV)
    data,            \* st.session_state.data
    processed_data,  \* st.session_state.processed_data
    process_arg,     \* what process_data was called on in the last run of a page
    messages,        \* what the last run of a page displayed
    filter_args,     \* the arguments of the last filter_data call, or None
    filtered_data,   \* the DataFrame the last filter_data call returned, or None
    analytics_data,  \* self.data of the Analytics object, or None
    call,            \* the last call on the analytics: its name and arguments
    result,          \* what that call returned, or None
    content_calendar,  \* st.session_state['content_calendar']: date string -> item
    content_ideas,     \* st.session_state['content_ideas']: a list of ideas
    clock,             \* datetime.now(), counted in calls
    planner_call,      \* the last call on the ContentPlanner, or the last handler
                       \* of a planner page that ran
    last_change,       \* per date string, the last add or delete made on it; an
                       \* add on a date that had an item is a "replace"
    flags              \* the st.session_state flags that open a form: the dates
                       \* under edit_content_ and quick_add_, the idea ids under
                       \* schedule_idea_

session_vars == <<uploaded_file, data, processed_data, process_arg, messages,
                  filter_args, filtered_data>>

analytics_vars == <<analytics_data, call, result>>

planner_vars == <<content_calendar, content_ideas, clock, planner_call, last_change,
                  flags>>

vars == <<session_vars, analytics_vars, planner_vars>>

----------------------------------------------------------------------------
(* Python's None and a present value *)
None == <<>>
Some(x) == <<x>>
Val(o) == o[1]

----------------------------------------------------------------------------
(* Cell values *)

NaN == [k |-> "nan", n |-> 0, d |-> 1]
PosInf == [k |-> "inf", n |-> 1, d |-> 1]
NegInf == [k |-> "inf", n |-> -1, d |-> 1]
Text == [k |-> "str", n |-> 0, d |-> 1]
Absent == [k |-> "absent", n |-> 0, d |-> 1]

Abs(i) == IF i < 0 THEN -i ELSE i

RECURSIVE Gcd(_, _)
Gcd(a, b) == IF b = 0 THEN a ELSE Gcd(b, a % b)

(* the rational n/d, d > 0, in lowest terms *)
Rat(n, d) ==
    LET g == Gcd(Abs(n), d)
    IN  [k |-> "num", n |-> n \div g, d |-> d \div g]

Num(i) == [k |-> "num", n |-> i, d |-> 1]

IsNum(x) == x.k = "num"

Sign(x) == IF x.n > 0 THEN 1 ELSE IF x.n < 0 THEN -1 ELSE 0

(* float addition *)
FAdd(a, b) ==
    IF a.k = "nan" \/ b.k = "nan" THEN NaN
    ELSE IF a.k = "inf" /\ b.k = "inf" THEN (IF a.n = b.n THEN a ELSE NaN)
    ELSE IF a.k = "inf" THEN a
    ELSE IF b.k = "inf" THEN b
    ELSE Rat(a.n * b.d + b.n * a.d, a.d * b.d)

(* float multiplication *)
FMul(a, b) ==
    IF a.k = "nan" \/ b.k = "nan" THEN NaN
    ELSE IF a.k = "inf" \/ b.k = "inf"
         THEN (IF Sign(a) * Sign(b) = 0 THEN NaN
               ELSE IF Sign(a) * Sign(b) > 0 THEN PosInf ELSE NegInf)
    ELSE Rat(a.n * b.n, a.d * b.d)

(* float division as numpy does it on a Series: x/0 is +-inf, 0/0 is NaN,  *)
(* and nothing is raised                                                   *)
FDiv(a, b) ==
    IF a.k = "nan" \/ b.k = "nan" THEN NaN
    ELSE IF a.k = "inf" /\ b.k = "inf" THEN NaN
    ELSE IF a.k = "inf" THEN (IF Sign(b) < 0 THEN [a EXCEPT !.n = -a.n] ELSE a)
    ELSE IF b.k = "inf" THEN Num(0)
    ELSE IF b.n = 0
         THEN (IF a.n = 0 THEN NaN ELSE IF a.n > 0 THEN PosInf ELSE NegInf)
    ELSE IF b.n > 0 THEN Rat(a.n * b.d, a.d * b.n)
    ELSE Rat(-(a.n * b.d), a.d * (-b.n))

(* Series.fillna(0): only NaN is replaced, an infinity is not *)
fillna(x, v) == IF x.k = "nan" THEN v ELSE x

IsFinite(x) == x.k = "num"

Digits == <<"0", "1", "2", "3", "4", "5", "6", "7", "8", "9">>

----------------------------------------------------------------------------
(* Dates *)

HoursPerDay == 24
DaysPerWeek == 7

DateStr(day, hour) == [k |-> "date", day |-> day, hour |-> hour]
NoDate == [k |-> "nan", day |-> 0, hour |-> 0]
BadDate == [k |-> "bad", day |-> 0, hour |-> 0]

Timestamp(h) == [k |-> "ts", v |-> h]
NaT == [k |-> "nat", v |-> 0]

(* pd.to_datetime on one cell of the date column (no cell is "bad") *)
to_datetime(c) ==
    IF c.k = "date" THEN Timestamp(c.day * HoursPerDay + c.hour) ELSE NaT

DayNames == <<"Monday", "Tuesday", "Wednesday", "Thursday", "Friday",
              "Saturday", "Sunday">>

(* the days before each month of 2024, a leap year *)
MonthStarts == <<0, 31, 60, 91, 121, 152, 182, 213, 244, 274, 305, 335>>

DayOf(t) == t.v \div HoursPerDay

day_name(t) ==
    IF t.k = "nat" THEN "NaN" ELSE DayNames[(DayOf(t) % DaysPerWeek) + 1]

hour_of(t) == IF t.k = "nat" THEN NaN ELSE Num(t.v % HoursPerDay)

month_of(t) ==
    IF t.k = "nat" THEN NaN
    ELSE Num(Cardinality({m \in 1..Len(MonthStarts) : MonthStarts[m] <= DayOf(t)}))

(* the ISO week of a day of 2024, whose first day is a Monday *)
week_of(t) == IF t.k = "nat" THEN NaN ELSE Num((DayOf(t) \div DaysPerWeek) + 1)

----------------------------------------------------------------------------
(* DataFrames *)

required_columns == {"date", "likes", "comments", "reach", "impressions", "post_type"}
optional_columns == {"hashtags", "caption", "time"}

(* a cell of the hashtags column: a string (a sequence of characters) or a *)
(* missing value                                                           *)
Str(s) == [k |-> "str", s |-> s]
NoStr == [k |-> "nan", s |-> <<>>]
AbsentStr == [k |-> "absent", s |-> <<>>]
AbsentDate == [k |-> "absent", day |-> 0, hour |-> 0]
AbsentType == ""

Cells(dt, l, c, r, im, pt, h) ==
    [date |-> dt, likes |-> l, comments |-> c, reach |-> r, impressions |-> im,
     post_type |-> pt, hashtags |-> h]

(* pd.read_csv: the DataFrame of a CSV file with the header `columns` and  *)
(* the lines `lines`; a row keeps the cells of the columns the file has    *)
(* and is labelled by its 0-based line number.  A file with no header      *)
(* makes read_csv raise (read_csv_raises)                                  *)
read_csv(columns, lines) ==
    [columns |-> columns,
     rows |-> [i \in 1..Len(lines) |->
        [index |-> i - 1,
         date |-> IF "date" \in columns THEN lines[i].date ELSE AbsentDate,
         likes |-> IF "likes" \in columns THEN lines[i].likes ELSE Absent,
         comments |-> IF "comments" \in columns THEN lines[i].comments ELSE Absent,
         reach |-> IF "reach" \in columns THEN lines[i].reach ELSE Absent,
         impressions |-> IF "impressions" \in columns THEN lines[i].impressions ELSE Absent,
         post_type |-> IF "post_type" \in columns THEN lines[i].post_type ELSE AbsentType,
         hashtags |-> IF "hashtags" \in columns THEN lines[i].hashtags ELSE AbsentStr]]]

read_csv_raises(df) == df.columns = {}

(* the dtype read_csv infers for a column present in the file *)
dtype(df, col) ==
    IF Len(df.rows) = 0 THEN "object"
    ELSE IF \E i \in 1..Len(df.rows) : df.rows[i][col].k = "str" THEN "object"
    ELSE IF \E i \in 1..Len(df.rows) : df.rows[i][col].k = "nan" THEN "float64"
    ELSE "int64"

is_numeric_dtype(t) == t \in {"int64", "float64"}

(* a slip: post_type is not looked for *)
missing_columns_without_post_type(df) ==
    {col \in required_columns \ {"post_type"} : col \notin df.columns}

missing_columns(df) == {col \in required_columns : col \notin df.columns}

(* a slip: the dtype of impressions is not checked *)
validate_data_skips_impressions(df) ==
    IF missing_columns(df) # {} THEN FALSE
    ELSE IF ~is_numeric_dtype(dtype(df, "likes")) THEN FALSE
    ELSE IF ~is_numeric_dtype(dtype(df, "comments")) THEN FALSE
    ELSE IF ~is_numeric_dtype(dtype(df, "reach")) THEN FALSE
    ELSE TRUE

validate_data(df) ==
    IF missing_columns(df) # {} THEN FALSE
    ELSE IF ~is_numeric_dtype(dtype(df, "likes")) THEN FALSE
    ELSE IF ~is_numeric_dtype(dtype(df, "comments")) THEN FALSE
    ELSE IF ~is_numeric_dtype(dtype(df, "reach")) THEN FALSE
    ELSE IF ~is_numeric_dtype(dtype(df, "impressions")) THEN FALSE
    ELSE TRUE

----------------------------------------------------------------------------
(* process_data *)

Percent == 100

(* str.count('#') *)
RECURSIVE count_hash(_)
count_hash(s) ==
    IF s = <<>> THEN 0
    ELSE (IF Head(s) = "#" THEN 1 ELSE 0) + count_hash(Tail(s))

(* pd.to_datetime raises on a value it cannot parse *)
to_datetime_raises(df) == \E i \in 1..Len(df.rows) : df.rows[i].date.k = "bad"

(* a slip: the comments are left out *)
engagement_of_likes_only(likes, comments) == likes

engagement_of(likes, comments) == FAdd(likes, comments)

(* a slip: a fraction instead of a percentage *)
engagement_rate_as_fraction(engagement, reach) ==
    fillna(FDiv(engagement, reach), Num(0))

engagement_rate_of(engagement, reach) ==
    fillna(FMul(FDiv(engagement, reach), Num(Percent)), Num(0))

(* lines 40-63 on one row *)
enrich_row(r, has_hashtags) ==
    LET date == to_datetime(r.date)
        likes == fillna(r.likes, Num(0))
        comments == fillna(r.comments, Num(0))
        reach == fillna(r.reach, Num(0))
        impressions == fillna(r.impressions, Num(0))
        engagement == engagement_of(likes, comments)
        hashtags == IF has_hashtags THEN Str(r.hashtags.s) ELSE r.hashtags
    IN  [index |-> r.index,
         date |-> date,
         likes |-> likes,
         comments |-> comments,
         reach |-> reach,
         impressions |-> impressions,
         post_type |-> r.post_type,
         hashtags |-> hashtags,
         engagement |-> engagement,
         engagement_rate |-> engagement_rate_of(engagement, reach),
         day_of_week |-> day_name(date),
         hour |-> hour_of(date),
         month |-> month_of(date),
         week |-> week_of(date),
         hashtag_count |-> IF has_hashtags THEN Num(count_hash(hashtags.s)) ELSE Absent]

derived_columns(df) ==
    {"engagement", "engagement_rate", "day_of_week", "hour", "month", "week"}
        \cup (IF "hashtags" \in df.columns THEN {"hashtag_count"} ELSE {})

enrich(df) ==
    [columns |-> df.columns \cup derived_columns(df),
     rows |-> [i \in 1..Len(df.rows) |-> enrich_row(df.rows[i], "hashtags" \in df.columns)]]

(* the order sort_values('date') puts two dates in: ascending, NaT last *)
date_le(a, b) ==
    IF a.k = "nat" THEN b.k = "nat"
    ELSE IF b.k = "nat" THEN TRUE
    ELSE a.v <= b.v

Perms(n) ==
    {p \in [1..n -> 1..n] : \A i, j \in 1..n : i # j => p[i] # p[j]}

(* a slip: the rows are left in file order *)
sort_values_keeps_order(rows) == {rows}

(* sort_values('date'): the default sort is not stable, so equal dates may *)
(* come out in any order; each permutation that sorts is a possible        *)
(* result.  The rows without a date are not sorted but appended in their   *)
(* order                                                                   *)
sort_values(rows) ==
    {[i \in 1..Len(rows) |-> rows[p[i]]] :
        p \in {q \in Perms(Len(rows)) :
                 \A i, j \in 1..Len(rows) :
                    i < j => /\ date_le(rows[q[i]].date, rows[q[j]].date)
                             /\ (rows[q[i]].date.k = "nat" /\ rows[q[j]].date.k = "nat")
                                   => q[i] < q[j]}}

reset_index(rows) == [i \in 1..Len(rows) |-> [rows[i] EXCEPT !.index = i - 1]]

(* the dtype of the column Series.dt.hour returns: int32, but float64 when  *)
(* a date is NaT, whose hour is NaN                                        *)
dt_hour_dtype(rows) ==
    IF \E i \in 1..Len(rows) : rows[i].date.k = "nat" THEN "float64" ELSE "int32"

(* the DataFrames process_data may return for df, when it does not raise *)
process_data(df) ==
    {[columns |-> enrich(df).columns, rows |-> reset_index(s),
      hour_dtype |-> dt_hour_dtype(enrich(df).rows)] :
        s \in sort_values(enrich(df).rows)}

----------------------------------------------------------------------------
(* to_csv and the file read again *)

(* a slip: the date is written without its time of day *)
to_csv_date_without_time(t) ==
    IF t.k = "nat" THEN NoDate ELSE DateStr(DayOf(t), 0)

(* the cell to_csv writes for a timestamp, "YYYY-MM-DD HH:MM:SS", nothing  *)
(* for NaT                                                                 *)
to_csv_date(t) ==
    IF t.k = "nat" THEN NoDate ELSE DateStr(t.v \div HoursPerDay, t.v % HoursPerDay)

(* the cell to_csv writes for a string and read_csv reads back: the empty  *)
(* string is written as nothing and read as a missing value                *)
to_csv_str(h) ==
    IF h.k = "str" /\ h.s # <<>> THEN h
    ELSE IF h.k = "absent" THEN AbsentStr
    ELSE NoStr

(* str(n) of an integer n >= 0 *)
RECURSIVE digits_of(_)
digits_of(n) ==
    IF n < 10 THEN <<Digits[n + 1]>>
    ELSE digits_of(n \div 10) \o <<Digits[(n % 10) + 1]>>

(* int(s) of a string of digits *)
RECURSIVE int_of(_)
int_of(s) ==
    IF s = <<>> THEN 0
    ELSE 10 * int_of(SubSeq(s, 1, Len(s) - 1))
            + (CHOOSE v \in 0..9 : Digits[v + 1] = s[Len(s)])

(* the cell to_csv writes for a number and read_csv reads back: a whole    *)
(* number as its sign and digits, "inf" for an infinity, nothing for NaN;  *)
(* the shortest text of a float names that float                           *)
to_csv_number(x) ==
    IF x.k = "num" /\ x.d = 1
    THEN LET text == [minus |-> x.n < 0, digits |-> digits_of(Abs(x.n))]
         IN  Num((IF text.minus THEN -1 ELSE 1) * int_of(text.digits))
    ELSE x

(* pd.read_csv of DataFrame.to_csv(index=False) of a processed DataFrame:  *)
(* the file has all its columns, the derived ones included; of a line the  *)
(* cells of the derived columns are not kept here, as process_data         *)
(* overwrites them                                                         *)
read_csv_of_to_csv(df) ==
    read_csv(df.columns,
             [i \in 1..Len(df.rows) |->
                 Cells(to_csv_date(df.rows[i].date),
                       to_csv_number(df.rows[i].likes),
                       to_csv_number(df.rows[i].comments),
                       to_csv_number(df.rows[i].reach),
                       to_csv_number(df.rows[i].impressions),
                       df.rows[i].post_type,
                       to_csv_str(df.rows[i].hashtags))])

----------------------------------------------------------------------------
(* filter_data *)

(* the truth value Python gives an optional Timestamp: None is false *)
truthy(opt) == opt # None

(* the truth value Python gives an optional list: None and [] are false *)
truthy_list(opt) == opt # None /\ Val(opt) # {}

(* Series >= Timestamp and Series <= Timestamp; never true of NaT *)
date_ge(a, b) == a.k = "ts" /\ a.v >= b.v
date_le_ts(a, b) == a.k = "ts" /\ a.v <= b.v

filter_data(df, start_date, end_date, post_types) ==
    LET after_start ==
            IF truthy(start_date)
            THEN SelectSeq(df.rows, LAMBDA r : date_ge(r.date, Val(start_date)))
            ELSE df.rows
        before_end ==
            IF truthy(end_date)
            THEN SelectSeq(after_start, LAMBDA r : date_le_ts(r.date, Val(end_date)))
            ELSE after_start
        of_types ==
            IF truthy_list(post_types)
            THEN SelectSeq(before_end, LAMBDA r : r.post_type \in Val(post_types))
            ELSE before_end
    IN  [df EXCEPT !.rows = of_types]

(* pages/4_Reports.py filter_data_by_date: the dates of the rows, without  *)
(* their time, are compared with the two days; never true of NaT           *)
filter_data_by_date(df, start_date, end_date) ==
    [df EXCEPT !.rows =
        SelectSeq(df.rows, LAMBDA r : /\ r.date.k = "ts"
                                      /\ DayOf(r.date) >= start_date
                                      /\ DayOf(r.date) <= end_date)]

----------------------------------------------------------------------------
(* Aggregates of pandas *)

(* the members of a set of integers, ascending *)
RECURSIVE Ascending(_)
Ascending(S) ==
    IF S = {} THEN <<>>
    ELSE LET m == CHOOSE x \in S : \A y \in S : x <= y
         IN  <<m>> \o Ascending(S \ {m})

(* Series.sum() of a column without missing values *)
RECURSIVE sum(_, _)
sum(rows, col) ==
    IF rows = <<>> THEN Num(0) ELSE FAdd(Head(rows)[col], sum(Tail(rows), col))

(* Series.mean() of a column without missing values; NaN when there is no row *)
mean(rows, col) == FDiv(sum(rows, col), Num(Len(rows)))

(* a DataFrame that process_data made: its date column holds timestamps    *)
(* and it has the derived columns                                          *)
is_processed(df) == "engagement_rate" \in df.columns

(* what a call returns, or that it raised *)
Returned(v) == [raised |-> FALSE, value |-> v]
Raised == [raised |-> TRUE, value |-> <<>>]

----------------------------------------------------------------------------
(* aggregate_by_period *)

Periods == {"D", "W", "M"}

(* Series.dt.to_period(period).to_timestamp() on one date: the first hour  *)
(* of the day, of the week (Monday to Sunday) or of the month that holds it *)
period_start(t, period) ==
    IF period = "D" THEN DayOf(t) * HoursPerDay
    ELSE IF period = "W" THEN (DayOf(t) \div DaysPerWeek) * DaysPerWeek * HoursPerDay
    ELSE MonthStarts[month_of(t).n] * HoursPerDay

(* groupby leaves out the rows whose key is missing: the period of NaT is NaT *)
groupby_rows(rows) == SelectSeq(rows, LAMBDA r : r.date.k = "ts")

(* the rows of aggregate_by_period(data, period): one per period that has  *)
(* a row, ascending                                                        *)
aggregate_rows(rows, period) ==
    LET dated == groupby_rows(rows)
        key(r) == period_start(r.date, period)
        keys == Ascending({key(dated[i]) : i \in 1..Len(dated)})
    IN  [i \in 1..Len(keys) |->
            LET g == SelectSeq(dated, LAMBDA r : key(r) = keys[i])
            IN  [index |-> i - 1,
                 date |-> Timestamp(keys[i]),
                 likes |-> sum(g, "likes"),
                 comments |-> sum(g, "comments"),
                 reach |-> sum(g, "reach"),
                 impressions |-> sum(g, "impressions"),
                 engagement |-> sum(g, "engagement"),
                 engagement_rate |-> mean(g, "engagement_rate"),
                 post_count |-> Num(Len(g))]]

aggregate_by_period(df, period) ==
    IF ~is_processed(df) THEN Raised
    ELSE Returned([columns |-> {"date", "likes", "comments", "reach", "impressions",
                                "engagement", "engagement_rate", "post_count"},
                   rows |-> aggregate_rows(df.rows, period)])

----------------------------------------------------------------------------
(* nlargest and get_top_posts *)

(* a < b on floats; false when either is NaN *)
FLt(a, b) ==
    IF a.k = "nan" \/ b.k = "nan" THEN FALSE
    ELSE IF a.k = "inf" /\ b.k = "inf" THEN a.n < b.n
    ELSE IF a.k = "inf" THEN a.n < 0
    ELSE IF b.k = "inf" THEN b.n > 0
    ELSE a.n * b.d < b.n * a.d

(* row i goes before row j in descending order of col, missing values last *)
goes_before(rows, col, i, j) ==
    \/ rows[i][col].k # "nan" /\ rows[j][col].k = "nan"
    \/ FLt(rows[j][col], rows[i][col])

(* DataFrame.nlargest(n, col), keep='first'.  With n < len(rows) the n     *)
(* largest are selected and ordered by a stable sort, so equal values keep *)
(* their order.  With n >= len(rows) pandas takes the other path,          *)
(* sort_values(ascending=False).head(n), whose default sort is not stable: *)
(* equal values may come out in any order.  Missing values keep their      *)
(* order, last.  The rows keep their index labels                          *)
nlargest(rows, n, col) ==
    LET N == Len(rows)
        stable == {p \in Perms(N) :
                     \A a, b \in 1..N : a < b =>
                        \/ goes_before(rows, col, p[a], p[b])
                        \/ ~goes_before(rows, col, p[b], p[a]) /\ p[a] < p[b]}
        sorted == {p \in Perms(N) :
                     \A a, b \in 1..N : a < b =>
                        /\ ~goes_before(rows, col, p[b], p[a])
                        /\ (rows[p[a]][col].k = "nan" /\ rows[p[b]][col].k = "nan")
                              => p[a] < p[b]}
    IN  IF n <= 0 THEN {<<>>}
        ELSE IF n >= N THEN {[i \in 1..N |-> rows[p[i]]] : p \in sorted}
        ELSE {[i \in 1..n |-> rows[p[i]]] : p \in stable}

(* Analytics.get_top_posts(limit): the DataFrames it may return; it raises *)
(* a KeyError on data without an engagement_rate column                    *)
get_top_posts(df, limit) ==
    IF ~is_processed(df) THEN {Raised}
    ELSE {Returned([df EXCEPT !.rows = top]) :
             top \in nlargest(df.rows, limit, "engagement_rate")}

----------------------------------------------------------------------------
(* find_optimal_posting_times *)

TopHours == 3

(* f"{hour:02d}:00" for an int hour below 100, as its characters *)
format_hour(h) ==
    <<Digits[(h \div 10) + 1], Digits[(h % 10) + 1], ":", "0", "0">>

NoData == <<"N", "o", " ", "d", "a", "t", "a">>
NoTimeData == <<"N", "o", " ", "t", "i", "m", "e", " ", "d", "a", "t", "a", " ",
                "a", "v", "a", "i", "l", "a", "b", "l", "e">>

(* groupby(['day_of_week', 'hour'])['engagement_rate'].mean().reset_index(), *)
(* the rows of one day: one per hour posted at, ascending by hour; rows    *)
(* whose day or hour is missing are in no group                            *)
time_analysis(rows, day) ==
    LET of_day == SelectSeq(rows, LAMBDA r : r.day_of_week = day /\ r.hour.k = "num")
        hours == Ascending({of_day[i].hour.n : i \in 1..Len(of_day)})
    IN  [i \in 1..Len(hours) |->
            [index |-> i - 1,
             hour |-> Num(hours[i]),
             engagement_rate |->
                mean(SelectSeq(of_day, LAMBDA r : r.hour.n = hours[i]), "engagement_rate")]]

(* sorted(top_hours) *)
sorted_hours(top) == Ascending({top[i].hour.n : i \in 1..Len(top)})

(* the f-string raises a ValueError when the hour is a float, which it is  *)
(* when the hour column is float64                                         *)
format_raises(df) == df.hour_dtype = "float64"

(* the body of the loop for one day: the lists of times it may store *)
day_times(df, day) ==
    LET day_data == time_analysis(df.rows, day)
    IN  IF Len(day_data) > 0
        THEN {[i \in 1..Len(sorted_hours(top)) |-> format_hour(sorted_hours(top)[i])] :
                 top \in nlargest(day_data, TopHours, "engagement_rate")}
        ELSE {<<NoData>>}

(* the loop over the first d days of days_order: the mappings it may       *)
(* build, as the list of their keys with their lists of times              *)
RECURSIVE optimal_times(_, _)
optimal_times(df, d) ==
    IF d = 0 THEN {<<>>}
    ELSE {Append(m, [day |-> DayNames[d], times |-> t]) :
             m \in optimal_times(df, d - 1), t \in day_times(df, DayNames[d])}

(* Analytics.find_optimal_posting_times(): the values it may return *)
find_optimal_posting_times(df) ==
    IF "hour" \notin df.columns
    THEN {Returned(<<[day |-> NoTimeData, times |-> <<>>]>>)}
    ELSE IF \E d \in 1..Len(DayNames) :
               Len(time_analysis(df.rows, DayNames[d])) > 0 /\ format_raises(df)
    THEN {Raised}
    ELSE {Returned(m) : m \in optimal_times(df, Len(DayNames))}

----------------------------------------------------------------------------
(* get_trend_analysis *)

(* Series.max() of the date column: NaT is skipped, and is the result when *)
(* no row has a date                                                       *)
max_date(rows) ==
    LET ts == {rows[i].date.v : i \in {j \in 1..Len(rows) : rows[j].date.k = "ts"}}
    IN  IF ts = {} THEN NaT ELSE Timestamp(CHOOSE t \in ts : \A u \in ts : t >= u)

(* recent_date - timedelta(days=days); NaT stays NaT *)
minus_days(t, days) ==
    IF t.k = "nat" THEN NaT ELSE Timestamp(t.v - days * HoursPerDay)

(* data[data['date'] >= start_date]: a comparison with NaT is false *)
rows_since(rows, start) ==
    SelectSeq(rows, LAMBDA r : start.k = "ts" /\ date_ge(r.date, start))

(* rows.loc[rows[col].idxmax()]: the first row with the largest value *)
idxmax_row(rows, col) ==
    rows[CHOOSE i \in 1..Len(rows) :
            /\ \A j \in 1..Len(rows) : ~FLt(rows[i][col], rows[j][col])
            /\ \A j \in 1..(i - 1) : FLt(rows[j][col], rows[i][col])]

(* Analytics.get_trend_analysis(days); it raises on data whose dates are   *)
(* not timestamps                                                          *)
get_trend_analysis(df, days) ==
    IF ~is_processed(df) THEN Raised
    ELSE LET recent_date == max_date(df.rows)
             start_date == minus_days(recent_date, days)
             recent_data == rows_since(df.rows, start_date)
         IN  IF Len(recent_data) = 0 THEN Returned([empty |-> TRUE])
             ELSE Returned(
                    [empty |-> FALSE,
                     total_posts |-> Len(recent_data),
                     avg_likes |-> mean(recent_data, "likes"),
                     avg_comments |-> mean(recent_data, "comments"),
                     avg_engagement_rate |-> mean(recent_data, "engagement_rate"),
                     total_reach |-> sum(recent_data, "reach"),
                     best_post |-> idxmax_row(recent_data, "engagement_rate")])

----------------------------------------------------------------------------
(* ContentPlanner *)

(* a Python dict as the set of its entries, one per key *)
dict_has(dict, key) == \E e \in dict : e.key = key
dict_get(dict, key) == (CHOOSE e \in dict : e.key = key).value
dict_del(dict, key) == {e \in dict : e.key # key}
dict_set(dict, key, value) == dict_del(dict, key) \cup {[key |-> key, value |-> value]}

(* add_calendar_item: the calendar after the call made at the time now *)
add_calendar_item(calendar, date_str, content_type, caption, hashtags, notes, now) ==
    dict_set(calendar, date_str,
             [content_type |-> content_type,
              caption |-> caption,
              hashtags |-> hashtags,
              notes |-> notes,
              created_at |-> now,
              status |-> "planned"])

(* a slip: a date without an item is given one *)
update_calendar_item_or_create(calendar, date_str, field, value) ==
    IF dict_has(calendar, date_str)
    THEN dict_set(calendar, date_str,
                  [dict_get(calendar, date_str) EXCEPT ![field] = value])
    ELSE add_calendar_item(calendar, date_str, "Photo", value, "", "", 0)

(* update_calendar_item *)
update_calendar_item(calendar, date_str, field, value) ==
    IF dict_has(calendar, date_str)
    THEN dict_set(calendar, date_str,
                  [dict_get(calendar, date_str) EXCEPT ![field] = value])
    ELSE calendar

(* a slip: the item is marked instead of removed *)
delete_calendar_item_keeps_item(calendar, date_str) ==
    update_calendar_item(calendar, date_str, "status", "deleted")

(* delete_calendar_item *)
delete_calendar_item(calendar, date_str) ==
    IF dict_has(calendar, date_str) THEN dict_del(calendar, date_str) ELSE calendar

(* add_content_idea: the list after the call made at the time now *)
add_content_idea(ideas, title, description, hashtags, priority, category, now) ==
    Append(ideas,
           [id |-> Len(ideas) + 1,
            title |-> title,
            description |-> description,
            hashtags |-> hashtags,
            priority |-> priority,
            category |-> category,
            created_at |-> now,
            status |-> "idea",
            used |-> FALSE])

(* a slip: the flag is flipped *)
mark_idea_as_used_toggles(ideas, idea_id) ==
    [i \in 1..Len(ideas) |->
        IF ideas[i].id = idea_id /\ \A j \in 1..(i - 1) : ideas[j].id # idea_id
        THEN [ideas[i] EXCEPT !.used = ~ideas[i].used]
        ELSE ideas[i]]

(* mark_idea_as_used: the loop stops at the first idea with the id *)
mark_idea_as_used(ideas, idea_id) ==
    [i \in 1..Len(ideas) |->
        IF ideas[i].id = idea_id /\ \A j \in 1..(i - 1) : ideas[j].id # idea_id
        THEN [ideas[i] EXCEPT !.used = TRUE]
        ELSE ideas[i]]

(* delete_content_idea *)
delete_content_idea(ideas, idea_id) ==
    SelectSeq(ideas, LAMBDA idea : idea.id # idea_id)

----------------------------------------------------------------------------
(* Inputs *)

MaxRows == 2
MaxDay == 1

PostTypes == {"photo", "video"}
Hours == {0, 9}

(* the row of the specification's scenario: 2024-01-01, 100 likes,         *)
(* 20 comments, reach 1000, impressions 2000, a photo                      *)
Scenario ==
    Cells(DateStr(0, 0), Num(100), Num(20), Num(1000), Num(2000), "photo",
          Str(<<"#", "a">>))

LikesCells == {Num(100), Num(-20), NaN}
CommentsCells == {Num(20), NaN}
ReachCells == {Num(1000), Num(0), NaN}
DateCells == {DateStr(d, h) : d \in 0..MaxDay, h \in Hours} \cup {NoDate}

MetricLines ==
    {[Scenario EXCEPT !.likes = l, !.comments = c, !.reach = r] :
        l \in LikesCells, c \in CommentsCells, r \in ReachCells}

DateLines ==
    {[Scenario EXCEPT !.date = d, !.post_type = t] : d \in DateCells, t \in PostTypes}

OtherLines ==
    {[Scenario EXCEPT !.hashtags = NoStr],
     [Scenario EXCEPT !.hashtags = Str(<<"#", "a", " ", "#", "b">>)],
     [Scenario EXCEPT !.impressions = NaN]}

DefectLines ==
    {[Scenario EXCEPT !.date = BadDate],
     [Scenario EXCEPT !.likes = Text],
     [Scenario EXCEPT !.comments = Text],
     [Scenario EXCEPT !.reach = Text],
     [Scenario EXCEPT !.impressions = Text]}

Lines == MetricLines \cup DateLines \cup OtherLines \cup DefectLines

SeqsUpTo(n, S) == UNION {[1..m -> S] : m \in 0..n}

AllColumns == required_columns \cup {"hashtags"}

(* files with every column, and files with any set of columns *)
FullFrames == {read_csv(AllColumns, ls) : ls \in SeqsUpTo(MaxRows, Lines)}
PartialFrames ==
    {read_csv(cs, ls) : cs \in SUBSET AllColumns,
                        ls \in {<<>>, <<Scenario>>, <<[Scenario EXCEPT !.likes = NaN]>>}}
InputFrames == FullFrames \cup PartialFrames

(* the files of a session of several uploads: at most one line, at most    *)
(* one column left out                                                     *)
SessionFiles ==
    {f \in InputFrames :
        Len(f.rows) <= 1 /\ \A c, e \in AllColumns \ f.columns : c = e}

(* the files whose enrichment the Analytics page filters *)
FilterFrames == {read_csv(AllColumns, ls) : ls \in SeqsUpTo(MaxRows, DateLines)}

Midnights == {Timestamp(d * HoursPerDay) : d \in 0..MaxDay}
OptDates == {None} \cup {Some(t) : t \in Midnights}
OptTypes == {None} \cup {Some(S) : S \in SUBSET PostTypes}

(* the posts whose enrichment is analysed: days in two weeks and two       *)
(* months, a post without a date, a post nobody was shown                  *)
MaxPosts == 3

AnalyticsDates ==
    {DateStr(0, 0), DateStr(1, 9), DateStr(DaysPerWeek, 9), DateStr(MonthStarts[2], 0),
     NoDate}

AnalyticsLines ==
    {[Scenario EXCEPT !.date = d, !.likes = m[1], !.reach = m[2]] :
        d \in AnalyticsDates,
        m \in {<<Num(100), Num(1000)>>, <<Num(50), Num(1000)>>, <<Num(100), Num(0)>>}}

(* one more post than the hours find_optimal_posting_times lists, all on   *)
(* one day                                                                 *)
TimeLines ==
    {[Scenario EXCEPT !.date = DateStr(0, h), !.likes = l] :
        h \in {0, 9, 12, 18}, l \in {Num(100), Num(50)}}

TimeFrames(n) == {read_csv(AllColumns, ls) : ls \in [1..n -> TimeLines]}

(* the files of at most n posts, and those of the hours of one day *)
AnalyticsFrames(n) ==
    {read_csv(AllColumns, ls) : ls \in SeqsUpTo(n, AnalyticsLines)}
        \cup TimeFrames(TopHours + 1)

(* the DataFrames the pages hand to the analytics: the enrichment of a     *)
(* file, whole or filtered from a start date on, and for completeness a    *)
(* file as read                                                            *)
AnalyticsInputs(frames) ==
    UNION {{filter_data(p, s, None, None) : p \in process_data(f),
                s \in {None, Some(Timestamp(0)),
                       Some(Timestamp(MonthStarts[3] * HoursPerDay))}} :
            f \in {g \in frames : validate_data(g)}}
    \cup {read_csv(AllColumns, <<Scenario>>)}

(* get_top_posts() is called with its default 5 and with 10; smaller       *)
(* limits select among the posts                                           *)
TopLimits == {1, 2, 5}

(* get_trend_analysis is called with 30 days; shorter windows leave posts out *)
TrendDays == {0, 1, DaysPerWeek, 30}

(* export_calendar_data: the records of the export.  json.dumps writes the *)
(* dict as it is, one object per date string; the CSV has one row per item *)
(* with the columns of the row dict; another format gives the empty string *)
export_calendar_data(calendar, format_type) ==
    IF format_type = "json"
    THEN {[date |-> e.key] @@ e.value : e \in calendar}
    ELSE IF format_type = "csv"
    THEN {[date |-> e.key,
           content_type |-> e.value.content_type,
           caption |-> e.value.caption,
           hashtags |-> e.value.hashtags,
           notes |-> e.value.notes,
           status |-> e.value.status] : e \in calendar}
    ELSE {}

(* datetime.strptime(date_str, '%Y-%m-%d').date(), in days from 2024-01-01 *)
strptime(date_str) ==
    CASE date_str = "2024-01-01" -> 0
      [] date_str = "2024-01-15" -> 14

WeekAhead == 7
MonthAhead == 30

(* a slip: the posts of the week are counted without the lower end *)
get_calendar_stats_counts_past(calendar, ideas, today) ==
    [total_planned_posts |-> Cardinality(calendar),
     total_ideas |-> Len(ideas),
     unused_ideas |-> Len(SelectSeq(ideas, LAMBDA idea : ~idea.used)),
     content_types |->
        {[key |-> t, value |-> Cardinality({e \in calendar : e.value.content_type = t})] :
            t \in {e.value.content_type : e \in calendar}},
     upcoming_posts_7_days |->
        Cardinality({e \in calendar : strptime(e.key) <= today + WeekAhead}),
     upcoming_posts_30_days |->
        Cardinality({e \in calendar :
                        today <= strptime(e.key) /\ strptime(e.key) <= today + MonthAhead})]

(* get_calendar_stats, called on the day today *)
get_calendar_stats(calendar, ideas, today) ==
    [total_planned_posts |-> Cardinality(calendar),
     total_ideas |-> Len(ideas),
     unused_ideas |-> Len(SelectSeq(ideas, LAMBDA idea : ~idea.used)),
     content_types |->
        {[key |-> t, value |-> Cardinality({e \in calendar : e.value.content_type = t})] :
            t \in {e.value.content_type : e \in calendar}},
     upcoming_posts_7_days |->
        Cardinality({e \in calendar :
                        today <= strptime(e.key) /\ strptime(e.key) <= today + WeekAhead}),
     upcoming_posts_30_days |->
        Cardinality({e \in calendar :
                        today <= strptime(e.key) /\ strptime(e.key) <= today + MonthAhead})]


(* what the planner is called with *)
MaxCalls == 3

CalendarDates == {"2024-01-01", "2024-01-15"}
ContentTypes == {"Photo", "Video"}
Captions == {"caption"}
Updates == {<<"status", "posted">>, <<"caption", "edited">>}
Priorities == {"Medium"}
Formats == {"json", "csv", "xml"}
Todays == {-20, 0, 1}

(* what the forms of the planner pages are filled with; the schedule form *)
(* of an idea may still be submitted after the other calls are used up    *)
MaxPageCalls == MaxCalls + 1
Buttons == {"submit", "cancel"}
FormTypes == {"Photo"}
EditInputs == {<<"Video", "edited", "note">>}

----------------------------------------------------------------------------
(* The pages *)

(* app.py, line 50: min() and max() of the raw date column raise when it   *)
(* mixes strings with missing values                                       *)
date_range_raises(df) ==
    /\ \E i \in 1..Len(df.rows) : df.rows[i].date.k = "nan"
    /\ \E i \in 1..Len(df.rows) : df.rows[i].date.k # "nan"

(* a slip: the raw data is stored before it is validated *)
Upload_stores_unvalidated(f) ==
    /\ uploaded_file' = Some(f)
    /\ filter_args' = None
    /\ filtered_data' = None
    /\ UNCHANGED <<analytics_vars, planner_vars>>
    /\ IF read_csv_raises(f)
       THEN /\ messages' = <<"error">>
            /\ process_arg' = None
            /\ UNCHANGED <<data, processed_data>>
       ELSE /\ data' = Some(f)
            /\ IF validate_data(f)
               THEN /\ process_arg' = Some(f)
                    /\ IF to_datetime_raises(f)
                       THEN /\ messages' = <<"error">>
                            /\ UNCHANGED processed_data
                       ELSE /\ \E out \in process_data(f) : processed_data' = Some(out)
                            /\ messages' = <<"success", "posts loaded", "date range">>
               ELSE /\ messages' = <<"invalid">>
                    /\ process_arg' = None
                    /\ UNCHANGED processed_data

(* app.py main(), lines 37-54, run with the file f in the uploader *)
Upload(f) ==
    /\ uploaded_file' = Some(f)
    /\ filter_args' = None
    /\ filtered_data' = None
    /\ UNCHANGED <<analytics_vars, planner_vars>>
    /\ IF read_csv_raises(f)
       THEN /\ messages' = <<"error">>
            /\ process_arg' = None
            /\ UNCHANGED <<data, processed_data>>
       ELSE IF validate_data(f)
       THEN /\ data' = Some(f)
            /\ process_arg' = Some(f)
            /\ IF to_datetime_raises(f)
               THEN /\ messages' = <<"error">>
                    /\ UNCHANGED processed_data
               ELSE /\ \E out \in process_data(f) : processed_data' = Some(out)
                    /\ messages' =
                         IF date_range_raises(f)
                         THEN <<"success", "posts loaded", "error">>
                         ELSE <<"success", "posts loaded", "date range">>
       ELSE /\ messages' = <<"invalid">>
            /\ process_arg' = None
            /\ UNCHANGED <<data, processed_data>>

(* main() run after the user removed the file from the uploader *)
ClearFile ==
    /\ uploaded_file # None
    /\ uploaded_file' = None
    /\ messages' = <<>>
    /\ process_arg' = None
    /\ filter_args' = None
    /\ filtered_data' = None
    /\ UNCHANGED <<data, processed_data>>
    /\ UNCHANGED <<analytics_vars, planner_vars>>

(* the processed data is downloaded as CSV (pages/4_Reports.py, line 662)  *)
(* and the download is put in the uploader of main()                       *)
Reupload ==
    /\ processed_data # None
    /\ Upload(read_csv_of_to_csv(Val(processed_data)))

(* a call filter_data(processed_data, start, end, post_types) *)
FilterData(start_date, end_date, post_types) ==
    /\ processed_data # None
    /\ filter_args' = Some([start_date |-> start_date, end_date |-> end_date,
                            post_types |-> post_types])
    /\ filtered_data' =
         Some(filter_data(Val(processed_data), start_date, end_date, post_types))
    /\ messages' = <<>>
    /\ UNCHANGED <<uploaded_file, data, processed_data, process_arg>>
    /\ UNCHANGED <<analytics_vars, planner_vars>>

(* the days on which df has a post *)
days_of(df) == {DayOf(df.rows[i].date) : i \in {j \in 1..Len(df.rows) : df.rows[j].date.k = "ts"}}

min_day(df) == CHOOSE d \in days_of(df) : \A e \in days_of(df) : d <= e
max_day(df) == CHOOSE d \in days_of(df) : \A e \in days_of(df) : d >= e

unique_post_types(df) == {df.rows[i].post_type : i \in 1..Len(df.rows)}

(* pages/1_Analytics.py main(), lines 14-66: the user picks a start and an *)
(* end day between the first and the last day of the data and a selection  *)
(* of the post types                                                       *)
AnalyticsPage(start_day, end_day, selected_post_types) ==
    /\ processed_data # None
    /\ days_of(Val(processed_data)) # {}
    /\ start_day \in min_day(Val(processed_data))..max_day(Val(processed_data))
    /\ end_day \in min_day(Val(processed_data))..max_day(Val(processed_data))
    /\ selected_post_types \subseteq unique_post_types(Val(processed_data))
    /\ LET args == [start_date |-> Some(Timestamp(start_day * HoursPerDay)),
                    end_date |-> Some(Timestamp(end_day * HoursPerDay)),
                    post_types |-> Some(selected_post_types)]
           out == filter_data(Val(processed_data), args.start_date, args.end_date,
                              args.post_types)
       IN  /\ filter_args' = Some(args)
           /\ filtered_data' = Some(out)
           /\ messages' = IF Len(out.rows) = 0
                          THEN <<"posts in selection", "no data matches">>
                          ELSE <<"posts in selection">>
    /\ UNCHANGED <<uploaded_file, data, processed_data, process_arg>>
    /\ UNCHANGED <<analytics_vars, planner_vars>>

(* pages/4_Reports.py main(), lines 24-65: the user picks a start and an   *)
(* end day between the first and the last day of the data                  *)
ReportsPage(start_day, end_day) ==
    /\ processed_data # None
    /\ days_of(Val(processed_data)) # {}
    /\ start_day \in min_day(Val(processed_data))..max_day(Val(processed_data))
    /\ end_day \in min_day(Val(processed_data))..max_day(Val(processed_data))
    /\ filter_args' = Some([fn |-> "filter_data_by_date",
                            start_date |-> start_day, end_date |-> end_day])
    /\ filtered_data' =
          Some(filter_data_by_date(Val(processed_data), start_day, end_day))
    /\ messages' = <<"posts in range">>
    /\ UNCHANGED <<uploaded_file, data, processed_data, process_arg>>
    /\ UNCHANGED <<analytics_vars, planner_vars>>

(* pages/1_Analytics.py, line 116: processor.aggregate_by_period(data, period) *)
AggregateByPeriod(period) ==
    /\ analytics_data # None
    /\ call' = Some([fn |-> "aggregate_by_period", arg |-> period])
    /\ result' = Some(aggregate_by_period(Val(analytics_data), period))
    /\ UNCHANGED <<analytics_data, session_vars, planner_vars>>

(* app.py, line 151, pages/1_Analytics.py, line 133: analytics.get_top_posts(limit) *)
GetTopPosts(limit) ==
    /\ analytics_data # None
    /\ call' = Some([fn |-> "get_top_posts", arg |-> limit])
    /\ \E out \in get_top_posts(Val(analytics_data), limit) : result' = Some(out)
    /\ UNCHANGED <<analytics_data, session_vars, planner_vars>>

(* app.py, line 144, pages/1_Analytics.py, line 158:                      *)
(* analytics.find_optimal_posting_times()                                  *)
FindOptimalPostingTimes ==
    /\ analytics_data # None
    /\ call' = Some([fn |-> "find_optimal_posting_times", arg |-> 0])
    /\ \E out \in find_optimal_posting_times(Val(analytics_data)) : result' = Some(out)
    /\ UNCHANGED <<analytics_data, session_vars, planner_vars>>

(* pages/1_Analytics.py, line 227: analytics.get_trend_analysis(30) *)
GetTrendAnalysis(days) ==
    /\ analytics_data # None
    /\ call' = Some([fn |-> "get_trend_analysis", arg |-> days])
    /\ result' = Some(get_trend_analysis(Val(analytics_data), days))
    /\ UNCHANGED <<analytics_data, session_vars, planner_vars>>

(* planner.add_calendar_item(date_str, content_type, caption, hashtags, notes) *)
AddCalendarItem(date_str, content_type, caption) ==
    /\ clock < MaxCalls
    /\ content_calendar' =
          add_calendar_item(content_calendar, date_str, content_type, caption, "#tag", "",
                            clock)
    /\ clock' = clock + 1
    /\ planner_call' = Some([fn |-> "add_calendar_item", key |-> date_str])
    /\ last_change' = [last_change EXCEPT ![date_str] =
                          IF dict_has(content_calendar, date_str) THEN "replace" ELSE "add"]
    /\ UNCHANGED <<content_ideas, flags, session_vars, analytics_vars>>

(* planner.update_calendar_item(date_str, field, value) *)
UpdateCalendarItem(date_str, field, value) ==
    /\ content_calendar' = update_calendar_item(content_calendar, date_str, field, value)
    /\ planner_call' = Some([fn |-> "update_calendar_item", key |-> date_str,
                             field |-> field, value |-> value])
    /\ UNCHANGED <<content_ideas, clock, last_change, flags, session_vars, analytics_vars>>

(* planner.delete_calendar_item(date_str) *)
DeleteCalendarItem(date_str) ==
    /\ content_calendar' = delete_calendar_item(content_calendar, date_str)
    /\ planner_call' = Some([fn |-> "delete_calendar_item", key |-> date_str])
    /\ last_change' = [last_change EXCEPT ![date_str] = "delete"]
    /\ UNCHANGED <<content_ideas, clock, flags, session_vars, analytics_vars>>

(* planner.add_content_idea(title, description, hashtags, priority, category) *)
AddContentIdea(priority) ==
    /\ clock < MaxCalls
    /\ content_ideas' =
          add_content_idea(content_ideas, "title", "description", "#tag", priority,
                           "General", clock)
    /\ clock' = clock + 1
    /\ planner_call' = Some([fn |-> "add_content_idea", key |-> Len(content_ideas) + 1])
    /\ UNCHANGED <<content_calendar, last_change, flags, session_vars, analytics_vars>>

(* planner.mark_idea_as_used(idea_id) *)
MarkIdeaAsUsed(idea_id) ==
    /\ content_ideas' = mark_idea_as_used(content_ideas, idea_id)
    /\ planner_call' = Some([fn |-> "mark_idea_as_used", key |-> idea_id])
    /\ UNCHANGED <<content_calendar, clock, last_change, flags, session_vars, analytics_vars>>

(* planner.delete_content_idea(idea_id) *)
DeleteContentIdea(idea_id) ==
    /\ content_ideas' = delete_content_idea(content_ideas, idea_id)
    /\ planner_call' = Some([fn |-> "delete_content_idea", key |-> idea_id])
    /\ UNCHANGED <<content_calendar, clock, last_change, flags, session_vars, analytics_vars>>

(* planner.export_calendar_data(format_type) *)
ExportCalendarData(format_type) ==
    /\ planner_call' = Some([fn |-> "export_calendar_data", key |-> format_type,
                             value |-> export_calendar_data(content_calendar, format_type)])
    /\ UNCHANGED <<content_calendar, content_ideas, clock, last_change, flags,
                   session_vars, analytics_vars>>

(* planner.get_calendar_stats() on the day today *)
GetCalendarStats(today) ==
    /\ planner_call' = Some([fn |-> "get_calendar_stats", key |-> today,
                             value |-> get_calendar_stats(content_calendar, content_ideas,
                                                          today)])
    /\ UNCHANGED <<content_calendar, content_ideas, clock, last_change, flags,
                   session_vars, analytics_vars>>

----------------------------------------------------------------------------
(* The handlers of pages/2_Content_Calendar.py and pages/3_Content_Ideas.py *)

(* what a handler did: its name, the date string and the position in the   *)
(* stored list of the idea it ran for, and the message it showed           *)
PageEvent(fn, key, idea, shown) ==
    Some([fn |-> fn, key |-> key, idea |-> idea, shown |-> shown])

(* st.session_state[f'{name}_{k}'] = True and = False *)
set_flag(f, name, k) == [f EXCEPT ![name] = @ \cup {k}]
clear_flag(f, name, k) == [f EXCEPT ![name] = @ \ {k}]

(* the Edit button of a stored item, in the month grid and in the list *)
PressEdit(date_str) ==
    /\ dict_has(content_calendar, date_str)
    /\ flags' = set_flag(flags, "edit_content", date_str)
    /\ planner_call' = PageEvent("edit", date_str, 0, "none")
    /\ UNCHANGED <<content_calendar, content_ideas, clock, last_change,
                   session_vars, analytics_vars>>

(* edit_content_form, shown under a stored item whose edit flag is set *)
edit_content_form(date_str, button, content_type, caption, notes) ==
    /\ dict_has(content_calendar, date_str)
    /\ date_str \in flags.edit_content
    /\ flags' = clear_flag(flags, "edit_content", date_str)
    /\ IF button = "submit"
       THEN /\ clock < MaxCalls
            /\ content_calendar' =
                  add_calendar_item(content_calendar, date_str, content_type, caption,
                                    dict_get(content_calendar, date_str).hashtags, notes,
                                    clock)
            /\ clock' = clock + 1
            /\ last_change' = [last_change EXCEPT ![date_str] = "replace"]
            /\ planner_call' = PageEvent("edit_content_form", date_str, 0, "success")
       ELSE /\ planner_call' = PageEvent("edit_content_form", date_str, 0, "none")
            /\ UNCHANGED <<content_calendar, clock, last_change>>
    /\ UNCHANGED <<content_ideas, session_vars, analytics_vars>>

(* the add button of an empty day of the month grid *)
PressQuickAdd(date_str) ==
    /\ ~dict_has(content_calendar, date_str)
    /\ flags' = set_flag(flags, "quick_add", date_str)
    /\ planner_call' = PageEvent("quick_add", date_str, 0, "none")
    /\ UNCHANGED <<content_calendar, content_ideas, clock, last_change,
                   session_vars, analytics_vars>>

(* quick_add_form, shown under an empty day whose quick-add flag is set *)
quick_add_form(date_str, button, content_type, caption) ==
    /\ ~dict_has(content_calendar, date_str)
    /\ date_str \in flags.quick_add
    /\ flags' = clear_flag(flags, "quick_add", date_str)
    /\ IF button = "submit"
       THEN /\ clock < MaxCalls
            /\ content_calendar' =
                  add_calendar_item(content_calendar, date_str, content_type, caption,
                                    "#tag", "", clock)
            /\ clock' = clock + 1
            /\ last_change' = [last_change EXCEPT ![date_str] = "add"]
            /\ planner_call' = PageEvent("quick_add_form", date_str, 0, "success")
       ELSE /\ planner_call' = PageEvent("quick_add_form", date_str, 0, "none")
            /\ UNCHANGED <<content_calendar, clock, last_change>>
    /\ UNCHANGED <<content_ideas, session_vars, analytics_vars>>

(* a slip: the Plan New Content form adds without looking at the date *)
display_add_content_form_overwrites(date_str, content_type, caption) ==
    /\ clock < MaxCalls
    /\ content_calendar' =
          add_calendar_item(content_calendar, date_str, content_type, caption,
                            "#tag", "", clock)
    /\ clock' = clock + 1
    /\ last_change' = [last_change EXCEPT ![date_str] =
                          IF dict_has(content_calendar, date_str) THEN "replace" ELSE "add"]
    /\ planner_call' = PageEvent("display_add_content_form", date_str, 0, "success")
    /\ UNCHANGED <<content_ideas, flags, session_vars, analytics_vars>>

(* display_add_content_form: the Plan New Content form is submitted *)
display_add_content_form(date_str, content_type, caption) ==
    IF dict_has(content_calendar, date_str)
    THEN /\ planner_call' = PageEvent("display_add_content_form", date_str, 0, "error")
         /\ UNCHANGED <<content_calendar, content_ideas, clock, last_change, flags,
                        session_vars, analytics_vars>>
    ELSE /\ clock < MaxCalls
         /\ content_calendar' =
               add_calendar_item(content_calendar, date_str, content_type, caption,
                                 "#tag", "", clock)
         /\ clock' = clock + 1
         /\ last_change' = [last_change EXCEPT ![date_str] = "add"]
         /\ planner_call' = PageEvent("display_add_content_form", date_str, 0, "success")
         /\ UNCHANGED <<content_ideas, flags, session_vars, analytics_vars>>

(* the Delete button of a stored item, in the month grid and in the list *)
PressDelete(date_str) ==
    /\ dict_has(content_calendar, date_str)
    /\ content_calendar' = delete_calendar_item(content_calendar, date_str)
    /\ last_change' = [last_change EXCEPT ![date_str] = "delete"]
    /\ planner_call' = PageEvent("delete", date_str, 0, "success")
    /\ UNCHANGED <<content_ideas, clock, flags, session_vars, analytics_vars>>

(* a slip: Mark Posted stores another status *)
PressMarkPosted_archives(date_str) ==
    /\ dict_has(content_calendar, date_str)
    /\ content_calendar' =
          update_calendar_item(content_calendar, date_str, "status", "archived")
    /\ planner_call' = PageEvent("posted", date_str, 0, "success")
    /\ UNCHANGED <<content_ideas, clock, last_change, flags, session_vars, analytics_vars>>

(* the Mark Posted button of an item of the list of planned posts *)
PressMarkPosted(date_str) ==
    /\ dict_has(content_calendar, date_str)
    /\ content_calendar' =
          update_calendar_item(content_calendar, date_str, "status", "posted")
    /\ planner_call' = PageEvent("posted", date_str, 0, "success")
    /\ UNCHANGED <<content_ideas, clock, last_change, flags, session_vars, analytics_vars>>

(* the Mark as Used button, shown for an idea that is not used; i is the   *)
(* place of the displayed idea in the stored list                          *)
PressMarkAsUsed(i) ==
    /\ i \in 1..Len(content_ideas)
    /\ ~content_ideas[i].used
    /\ content_ideas' = mark_idea_as_used(content_ideas, content_ideas[i].id)
    /\ planner_call' = PageEvent("use", "", i, "success")
    /\ UNCHANGED <<content_calendar, clock, last_change, flags, session_vars,
                   analytics_vars>>

(* the Add to Calendar button, shown for an idea that is not used *)
PressAddToCalendar(i) ==
    /\ i \in 1..Len(content_ideas)
    /\ ~content_ideas[i].used
    /\ flags' = set_flag(flags, "schedule_idea", content_ideas[i].id)
    /\ planner_call' = PageEvent("calendar", "", i, "none")
    /\ UNCHANGED <<content_calendar, content_ideas, clock, last_change, session_vars,
                   analytics_vars>>

(* the Delete button of a displayed idea *)
PressDeleteIdea(i) ==
    /\ i \in 1..Len(content_ideas)
    /\ content_ideas' = delete_content_idea(content_ideas, content_ideas[i].id)
    /\ planner_call' = PageEvent("delete_idea", "", i, "success")
    /\ UNCHANGED <<content_calendar, clock, last_change, flags, session_vars,
                   analytics_vars>>

(* schedule_idea_form, shown under every displayed idea whose id has the   *)
(* schedule flag set                                                       *)
schedule_idea_form(i, button, date_str, content_type) ==
    /\ i \in 1..Len(content_ideas)
    /\ content_ideas[i].id \in flags.schedule_idea
    /\ IF button = "cancel"
       THEN /\ flags' = clear_flag(flags, "schedule_idea", content_ideas[i].id)
            /\ planner_call' = PageEvent("schedule_idea_form", date_str, i, "none")
            /\ UNCHANGED <<content_calendar, content_ideas, clock, last_change>>
       ELSE IF dict_has(content_calendar, date_str)
       THEN /\ planner_call' = PageEvent("schedule_idea_form", date_str, i, "error")
            /\ UNCHANGED <<content_calendar, content_ideas, clock, last_change, flags>>
       ELSE /\ clock < MaxPageCalls
            /\ content_calendar' =
                  add_calendar_item(content_calendar, date_str, content_type,
                                    content_ideas[i].description,
                                    content_ideas[i].hashtags, "", clock)
            /\ content_ideas' = mark_idea_as_used(content_ideas, content_ideas[i].id)
            /\ flags' = clear_flag(flags, "schedule_idea", content_ideas[i].id)
            /\ clock' = clock + 1
            /\ last_change' = [last_change EXCEPT ![date_str] = "add"]
            /\ planner_call' = PageEvent("schedule_idea_form", date_str, i, "success")
    /\ UNCHANGED <<session_vars, analytics_vars>>

(* no Analytics object was made *)
NoAnalytics ==
    /\ analytics_data = None
    /\ call = None
    /\ result = None

(* ContentPlanner.__init__ on a fresh session *)
NoPlanner ==
    /\ content_calendar = {}
    /\ content_ideas = <<>>
    /\ clock = 0
    /\ planner_call = None
    /\ last_change = [d \in CalendarDates |-> "none"]
    /\ flags = [edit_content |-> {}, quick_add |-> {}, schedule_idea |-> {}]

Init ==
    /\ uploaded_file = None
    /\ data = None
    /\ processed_data = None
    /\ process_arg = None
    /\ messages = <<>>
    /\ filter_args = None
    /\ filtered_data = None
    /\ NoAnalytics
    /\ NoPlanner

Next ==
    \/ \E f \in SessionFiles : Upload(f)
    \/ ClearFile

Spec == Init /\ [][Next]_vars

(* one file through the pipeline: the file is drawn first, then main()     *)
(* runs on it and filter_data is called on the result                      *)
InitData ==
    /\ uploaded_file \in {Some(f) : f \in InputFrames}
    /\ data = None
    /\ processed_data = None
    /\ process_arg = None
    /\ messages = <<>>
    /\ filter_args = None
    /\ filtered_data = None
    /\ NoAnalytics
    /\ NoPlanner

NextData == Upload(Val(uploaded_file))

SpecData == InitData /\ [][NextData]_vars

(* a session that holds an uploaded and enriched file, whose enrichment is *)
(* exported and uploaded again                                             *)
InitRoundTrip ==
    /\ uploaded_file = None
    /\ \E f \in {g \in InputFrames : validate_data(g) /\ ~to_datetime_raises(g)} :
          /\ data = Some(f)
          /\ processed_data \in {Some(out) : out \in process_data(f)}
    /\ process_arg = None
    /\ messages = <<>>
    /\ filter_args = None
    /\ filtered_data = None
    /\ NoAnalytics
    /\ NoPlanner

NextRoundTrip == Reupload

SpecRoundTrip == InitRoundTrip /\ [][NextRoundTrip]_vars

(* the content planner of a session without data *)
NextPlanner ==
    \/ \E d \in CalendarDates, t \in ContentTypes, c \in Captions : AddCalendarItem(d, t, c)
    \/ \E d \in CalendarDates, u \in Updates : UpdateCalendarItem(d, u[1], u[2])
    \/ \E d \in CalendarDates : DeleteCalendarItem(d)
    \/ \E p \in Priorities : AddContentIdea(p)
    \/ \E id \in 1..MaxCalls : MarkIdeaAsUsed(id)
    \/ \E id \in 1..MaxCalls : DeleteContentIdea(id)
    \/ \E f \in Formats : ExportCalendarData(f)
    \/ \E today \in Todays : GetCalendarStats(today)

SpecPlanner == Init /\ [][NextPlanner]_vars

(* the Content Calendar and Content Ideas pages of a session without data, *)
(* with the schedule form held to the calls of the other forms             *)
NextPages ==
    \/ \E d \in CalendarDates : PressEdit(d)
    \/ \E d \in CalendarDates, b \in Buttons, e \in EditInputs :
          edit_content_form(d, b, e[1], e[2], e[3])
    \/ \E d \in CalendarDates : PressQuickAdd(d)
    \/ \E d \in CalendarDates, b \in Buttons, t \in FormTypes, c \in Captions :
          quick_add_form(d, b, t, c)
    \/ \E d \in CalendarDates, t \in FormTypes, c \in Captions :
          display_add_content_form(d, t, c)
    \/ \E d \in CalendarDates : PressDelete(d)
    \/ \E d \in CalendarDates : PressMarkPosted(d)
    \/ \E p \in Priorities : AddContentIdea(p)
    \/ \E i \in 1..MaxCalls : PressMarkAsUsed(i)
    \/ \E i \in 1..MaxCalls : PressAddToCalendar(i)
    \/ \E i \in 1..MaxCalls : PressDeleteIdea(i)
    \/ \E i \in 1..MaxCalls, b \in Buttons, d \in CalendarDates, t \in FormTypes :
          clock < MaxCalls /\ schedule_idea_form(i, b, d, t)

SpecPages == Init /\ [][NextPages]_vars

(* the Content Ideas page alone, of a session without data *)
NextIdeas ==
    \/ \E p \in Priorities : AddContentIdea(p)
    \/ \E i \in 1..MaxCalls : PressMarkAsUsed(i)
    \/ \E i \in 1..MaxCalls : PressAddToCalendar(i)
    \/ \E i \in 1..MaxCalls : PressDeleteIdea(i)
    \/ \E i \in 1..MaxCalls, b \in Buttons, d \in CalendarDates, t \in FormTypes :
          schedule_idea_form(i, b, d, t)

SpecIdeas == Init /\ [][NextIdeas]_vars

(* the Analytics page and filter_data on a session that holds an uploaded  *)
(* and enriched file                                                       *)
InitFilter ==
    /\ uploaded_file = None
    /\ \E f \in FilterFrames :
          /\ data = Some(f)
          /\ processed_data \in {Some(out) : out \in process_data(f)}
    /\ process_arg = None
    /\ messages = <<>>
    /\ filter_args = None
    /\ filtered_data = None
    /\ NoAnalytics
    /\ NoPlanner

NextFilter ==
    \/ \E s \in OptDates, e \in OptDates, pt \in OptTypes : FilterData(s, e, pt)
    \/ \E s \in 0..MaxDay, e \in 0..MaxDay, sel \in SUBSET PostTypes :
          AnalyticsPage(s, e, sel)

SpecFilter == InitFilter /\ [][NextFilter]_vars

(* the Analytics page and the Reports page on a session that holds an     *)
(* uploaded and enriched file                                              *)
NextReports ==
    \/ \E s \in 0..MaxDay, e \in 0..MaxDay, sel \in SUBSET PostTypes :
          AnalyticsPage(s, e, sel)
    \/ \E s \in 0..MaxDay, e \in 0..MaxDay : ReportsPage(s, e)

SpecReports == InitFilter /\ [][NextReports]_vars

(* the analytics of one DataFrame: Analytics(data) is made first, then its *)
(* methods are called                                                      *)
InitAnalytics ==
    /\ uploaded_file = None
    /\ data = None
    /\ processed_data = None
    /\ process_arg = None
    /\ messages = <<>>
    /\ filter_args = None
    /\ filtered_data = None
    /\ analytics_data \in {Some(d) : d \in AnalyticsInputs(AnalyticsFrames(MaxPosts))}
    /\ call = None
    /\ result = None
    /\ NoPlanner

NextAnalytics ==
    \/ \E period \in Periods : AggregateByPeriod(period)
    \/ \E limit \in TopLimits : GetTopPosts(limit)
    \/ FindOptimalPostingTimes
    \/ \E days \in TrendDays : GetTrendAnalysis(days)

SpecAnalytics == InitAnalytics /\ [][NextAnalytics]_vars

----------------------------------------------------------------------------
(* Properties *)

(* a count with a missing value read as 0 *)
Count0(c) == IF c.k = "nan" THEN 0 ELSE c.n

(* every cell of the column is a number or missing, and there is a cell *)
NumericColumn(df, col) ==
    /\ Len(df.rows) > 0
    /\ \A i \in 1..Len(df.rows) : df.rows[i][col].k \in {"num", "nan"}

(* C1: in the upload flow process_data runs only on a dataset that         *)
(* validate_data accepted; an upload that fails validation calls           *)
(* process_data on nothing and leaves the session's data and               *)
(* processed_data as they were.                                            *)
C1_ValidationGatesEnrichment ==
    [][/\ (process_arg' # None => validate_data(Val(process_arg')))
       /\ ((uploaded_file' # None /\ ~validate_data(Val(uploaded_file')))
             => /\ process_arg' = None
                /\ data' = data
                /\ processed_data' = processed_data)]_vars

(* an invalid file was uploaded over a session that holds an earlier upload *)
C1_Witness ==
    /\ uploaded_file # None
    /\ ~validate_data(Val(uploaded_file))
    /\ messages = <<"invalid">>
    /\ data # None
    /\ processed_data # None
    /\ Val(data) # Val(uploaded_file)

(* C2: a dataset that lacks a required column fails validation, whatever   *)
(* its other columns hold, and nothing of it is stored.                    *)
C2_MissingColumnFails ==
    (uploaded_file # None /\ ~(required_columns \subseteq Val(uploaded_file).columns))
        => /\ ~validate_data(Val(uploaded_file))
           /\ messages \in {<<>>, <<"invalid">>, <<"error">>}
           /\ data = None
           /\ processed_data = None

(* a file whose only defect is that it has no post_type column was rejected *)
C2_Witness ==
    /\ uploaded_file # None
    /\ required_columns \ Val(uploaded_file).columns = {"post_type"}
    /\ \A col \in {"likes", "comments", "reach", "impressions"} :
          NumericColumn(Val(uploaded_file), col)
    /\ messages = <<"invalid">>

(* C3: validate_data passes exactly when the six required columns are      *)
(* present and likes, comments, reach and impressions are numeric columns; *)
(* the values are not range-checked.                                       *)
C3_ValidateIffColumnsNumeric ==
    uploaded_file # None
        => validate_data(Val(uploaded_file)) =
             (/\ required_columns \subseteq Val(uploaded_file).columns
              /\ \A col \in {"likes", "comments", "reach", "impressions"} :
                    NumericColumn(Val(uploaded_file), col))

(* a dataset with a negative count passed and was stored *)
C3_Witness ==
    /\ uploaded_file # None
    /\ validate_data(Val(uploaded_file))
    /\ \E i \in 1..Len(Val(uploaded_file).rows) : Val(uploaded_file).rows[i].likes.n < 0
    /\ Len(messages) > 0 /\ messages[1] = "success"
    /\ data = uploaded_file

(* C4: every output row has engagement = likes + comments, and every input *)
(* row comes out with its likes and comments, a missing one as 0, and      *)
(* their sum as engagement.                                                *)
C4_EngagementIsLikesPlusComments ==
    processed_data # None =>
        LET out == Val(processed_data).rows
            raw == Val(data).rows
        IN  /\ \A i \in 1..Len(out) :
                  /\ IsNum(out[i].likes) /\ IsNum(out[i].comments)
                  /\ out[i].likes.d = 1 /\ out[i].comments.d = 1
                  /\ out[i].engagement = Num(out[i].likes.n + out[i].comments.n)
            /\ \A j \in 1..Len(raw) : \E i \in 1..Len(out) :
                  /\ out[i].likes = Num(Count0(raw[j].likes))
                  /\ out[i].comments = Num(Count0(raw[j].comments))
                  /\ out[i].engagement =
                        Num(Count0(raw[j].likes) + Count0(raw[j].comments))

(* a row with missing likes and 20 comments came out with engagement 20 *)
C4_Witness ==
    /\ processed_data # None
    /\ \E j \in 1..Len(Val(data).rows) :
          Val(data).rows[j].likes = NaN /\ Val(data).rows[j].comments = Num(20)
    /\ \E i \in 1..Len(Val(processed_data).rows) :
          /\ Val(processed_data).rows[i].likes = Num(0)
          /\ Val(processed_data).rows[i].engagement = Num(20)

(* C5: a row with reach > 0 has engagement_rate = engagement / reach * 100 *)
(* (engagement_rate * reach = 100 * (likes + comments)); likes 100,        *)
(* comments 20, reach 1000 give 12.                                        *)
C5_EngagementRateFormula ==
    processed_data # None =>
        \A i \in 1..Len(Val(processed_data).rows) :
            LET r == Val(processed_data).rows[i]
            IN  (IsNum(r.reach) /\ r.reach.n > 0) =>
                    /\ IsNum(r.engagement_rate)
                    /\ r.engagement_rate.d > 0
                    /\ r.engagement_rate.n * r.reach.n =
                          100 * (r.likes.n + r.comments.n) * r.engagement_rate.d * r.reach.d
                    /\ (r.likes = Num(100) /\ r.comments = Num(20) /\ r.reach = Num(1000))
                          => r.engagement_rate = Num(12)

(* the scenario row was enriched *)
C5_Witness ==
    /\ processed_data # None
    /\ \E i \in 1..Len(Val(processed_data).rows) :
          LET r == Val(processed_data).rows[i]
          IN  /\ r.likes = Num(100) /\ r.comments = Num(20) /\ r.reach = Num(1000)
              /\ r.engagement = Num(120)
              /\ r.engagement_rate = Num(12)

(* C6: a row whose reach is 0 (a missing reach included) has               *)
(* engagement_rate exactly 0, whatever its likes and comments.             *)
C6_ZeroReachGivesZeroRate ==
    processed_data # None =>
        \A i \in 1..Len(Val(processed_data).rows) :
            Val(processed_data).rows[i].reach = Num(0)
                => Val(processed_data).rows[i].engagement_rate = Num(0)

(* C7: every row of the enrichment of a validated dataset has a finite,    *)
(* non-negative engagement_rate.                                           *)
C7_RateFiniteNonNegative ==
    processed_data # None =>
        \A i \in 1..Len(Val(processed_data).rows) :
            /\ IsFinite(Val(processed_data).rows[i].engagement_rate)
            /\ Val(processed_data).rows[i].engagement_rate.n >= 0

(* an output row is this input row, enriched *)
SameRow(o, r) ==
    /\ o.post_type = r.post_type
    /\ o.date = to_datetime(r.date)
    /\ o.likes = Num(Count0(r.likes))
    /\ o.comments = Num(Count0(r.comments))
    /\ o.reach = Num(Count0(r.reach))
    /\ o.impressions = Num(Count0(r.impressions))
    /\ o.hashtags.s = r.hashtags.s

(* C8: the output of process_data holds exactly the input rows, none       *)
(* dropped or duplicated, ascending by date (rows without a date last),    *)
(* labelled 0..n-1.                                                        *)
C8_OutputIsSortedPermutation ==
    processed_data # None =>
        LET out == Val(processed_data).rows
            raw == Val(data).rows
        IN  /\ Len(out) = Len(raw)
            /\ \E p \in Perms(Len(raw)) :
                  \A i \in 1..Len(out) : SameRow(out[i], raw[p[i]])
            /\ \A i, j \in 1..Len(out) :
                  i < j => /\ (out[i].date.k = "ts" /\ out[j].date.k = "ts")
                                => out[i].date.v <= out[j].date.v
                           /\ out[i].date.k = "nat" => out[j].date.k = "nat"
            /\ \A i \in 1..Len(out) : out[i].index = i - 1

(* a file whose first line is dated after its second was sorted *)
C8_Witness ==
    /\ processed_data # None
    /\ Len(Val(data).rows) = 2
    /\ Val(data).rows[1].date.k = "date" /\ Val(data).rows[2].date.k = "date"
    /\ Val(data).rows[1].date.day > Val(data).rows[2].date.day
    /\ Val(data).rows[1].post_type # Val(data).rows[2].post_type
    /\ Val(processed_data).rows[1].post_type = Val(data).rows[2].post_type

(* the rows the arguments ask for, every argument that is not None taken   *)
(* as given                                                                *)
Wanted(a, r) ==
    /\ a.start_date # None => (r.date.k = "ts" /\ r.date.v >= Val(a.start_date).v)
    /\ a.end_date # None => (r.date.k = "ts" /\ r.date.v <= Val(a.end_date).v)
    /\ a.post_types # None => r.post_type \in Val(a.post_types)

(* C9: filter_data returns exactly the rows with date >= start, date <= end *)
(* and post_type in post_types, each condition applying when its argument  *)
(* is given, in their order in data.                                       *)
C9_FilterSelectsExactly ==
    filtered_data # None =>
        Val(filtered_data).rows =
            SelectSeq(Val(processed_data).rows, LAMBDA r : Wanted(Val(filter_args), r))

(* C10: with post_types given as the empty list filter_data returns no row. *)
C10_EmptySelectionGivesNoRows ==
    (filter_args # None /\ Val(filter_args).post_types = Some({}))
        => Len(Val(filtered_data).rows) = 0

(* what C9 says, for every call but those with the empty list *)
FilterSelectsExactlyUnlessEmptyList ==
    (filtered_data # None /\ Val(filter_args).post_types # Some({}))
        => Val(filtered_data).rows =
              SelectSeq(Val(processed_data).rows, LAMBDA r : Wanted(Val(filter_args), r))

(* the sum of f over a finite set of indices *)
RECURSIVE SetSum(_, _)
SetSum(S, f) ==
    IF S = {} THEN 0
    ELSE LET x == CHOOSE y \in S : TRUE IN f[x] + SetSum(S \ {x}, f)

(* the hour t lies in the period (a day, a Monday-to-Sunday week, a month) *)
(* that starts at the hour b                                               *)
InPeriod(t, b, period) ==
    LET first == b \div HoursPerDay
        days == IF period = "D" THEN 1
                ELSE IF period = "W" THEN DaysPerWeek
                ELSE CHOOSE n \in 28..31 :
                        \E m \in 1..(Len(MonthStarts) - 1) :
                            MonthStarts[m] = first /\ MonthStarts[m + 1] = first + n
    IN  /\ b % HoursPerDay = 0
        /\ period = "W" => first % DaysPerWeek = 0
        /\ period = "M" => \E m \in 1..Len(MonthStarts) : MonthStarts[m] = first
        /\ b <= t /\ t < b + days * HoursPerDay

(* the input rows that lie in the bucket of an output row *)
RowsIn(in, o, period) ==
    {j \in 1..Len(in) : in[j].date.k = "ts" /\ InPeriod(in[j].date.v, o.date.v, period)}

(* the output row o carries the sums and the count of the input rows J *)
SumsOf(in, o, J) ==
    /\ J # {}
    /\ o.post_count = Num(Cardinality(J))
    /\ \A col \in {"likes", "comments", "reach", "impressions", "engagement"} :
          o[col] = Num(SetSum(J, [j \in J |-> in[j][col].n]))

(* an aggregate_by_period call returned *)
Aggregated ==
    /\ call # None /\ Val(call).fn = "aggregate_by_period"
    /\ ~Val(result).raised

(* C11: aggregate_by_period puts every input row in exactly one bucket,    *)
(* the day, week or month that holds its date; the output has one row per  *)
(* non-empty bucket, ascending by bucket start, with the sums of likes,    *)
(* comments, reach, impressions and engagement and the number of the       *)
(* bucket's rows as post_count; the post_counts add up to the number of    *)
(* input rows; two rows a week apart give two weekly buckets of one row.   *)
C11_AggregatePartitionsRows ==
    Aggregated =>
        LET in == Val(analytics_data).rows
            out == Val(result).value.rows
            period == Val(call).arg
        IN  /\ \A j \in 1..Len(in) :
                  Cardinality({i \in 1..Len(out) : j \in RowsIn(in, out[i], period)}) = 1
            /\ \A i \in 1..Len(out) : SumsOf(in, out[i], RowsIn(in, out[i], period))
            /\ \A i, k \in 1..Len(out) : i < k => out[i].date.v < out[k].date.v
            /\ SetSum(1..Len(out), [i \in 1..Len(out) |-> out[i].post_count.n]) = Len(in)

(* what C11 says, for the rows that have a date *)
AggregatePartitionsDatedRows ==
    Aggregated =>
        LET in == Val(analytics_data).rows
            out == Val(result).value.rows
            period == Val(call).arg
            dated == {j \in 1..Len(in) : in[j].date.k = "ts"}
        IN  /\ \A j \in dated :
                  Cardinality({i \in 1..Len(out) : j \in RowsIn(in, out[i], period)}) = 1
            /\ \A i \in 1..Len(out) : SumsOf(in, out[i], RowsIn(in, out[i], period))
            /\ \A i, k \in 1..Len(out) : i < k => out[i].date.v < out[k].date.v
            /\ SetSum(1..Len(out), [i \in 1..Len(out) |-> out[i].post_count.n])
                  = Cardinality(dated)

(* two dated rows a week apart were aggregated by week into two buckets of *)
(* one row each                                                            *)
WeekApartGivesTwoBuckets ==
    /\ Aggregated
    /\ Val(call).arg = "W"
    /\ Len(Val(analytics_data).rows) = 2
    /\ Val(analytics_data).rows[1].date = Timestamp(0)
    /\ Val(analytics_data).rows[2].date = Timestamp(DaysPerWeek * HoursPerDay + 9)
    /\ Len(Val(result).value.rows) = 2
    /\ Val(result).value.rows[1].post_count = Num(1)
    /\ Val(result).value.rows[2].post_count = Num(1)

(* a get_top_posts call returned *)
GotTopPosts ==
    /\ call # None /\ Val(call).fn = "get_top_posts"
    /\ ~Val(result).raised

(* the place in the rows in of the row labelled as o *)
PlaceOf(in, o) == CHOOSE j \in 1..Len(in) : in[j].index = o.index

(* the rows out are min(n, rows) different rows of in, descending by       *)
(* engagement_rate, and no row left out has a larger engagement_rate       *)
TopRows(in, out, n) ==
    /\ Len(out) = (IF n < Len(in) THEN n ELSE Len(in))
    /\ \A i \in 1..Len(out) : \E j \in 1..Len(in) : in[j] = out[i]
    /\ \A i, k \in 1..Len(out) : i < k =>
          /\ out[i].index # out[k].index
          /\ ~FLt(out[i].engagement_rate, out[k].engagement_rate)
    /\ \A j \in 1..Len(in) :
          (\A i \in 1..Len(out) : out[i].index # in[j].index)
              => \A i \in 1..Len(out) : ~FLt(out[i].engagement_rate, in[j].engagement_rate)

(* rows of out with equal engagement_rate are in their order in in *)
TiesInOriginalOrder(in, out) ==
    \A i, k \in 1..Len(out) :
        (i < k /\ out[i].engagement_rate = out[k].engagement_rate)
            => PlaceOf(in, out[i]) < PlaceOf(in, out[k])

(* C12: get_top_posts(n) returns min(n, rows) rows, descending by          *)
(* engagement_rate; no row left out has a larger engagement_rate than a    *)
(* returned one; rows with equal engagement_rate are in their original     *)
(* order.                                                                  *)
C12_TopPostsSortedTiesInOrder ==
    GotTopPosts =>
        /\ TopRows(Val(analytics_data).rows, Val(result).value.rows, Val(call).arg)
        /\ TiesInOriginalOrder(Val(analytics_data).rows, Val(result).value.rows)

(* what C12 says of the rows returned, without the order of equal rates *)
TopPostsSorted ==
    GotTopPosts =>
        TopRows(Val(analytics_data).rows, Val(result).value.rows, Val(call).arg)

(* what C12 says of equal rates, for a limit below the number of rows *)
TopPostsTiesInOrderBelowLength ==
    (GotTopPosts /\ Val(call).arg < Len(Val(analytics_data).rows))
        => TiesInOriginalOrder(Val(analytics_data).rows, Val(result).value.rows)

(* two of three rows were selected, among rows of equal rate *)
TopTwoOfThreeWithTie ==
    /\ GotTopPosts
    /\ Val(call).arg = 2
    /\ Len(Val(analytics_data).rows) = 3
    /\ Val(analytics_data).rows[2].engagement_rate = Val(analytics_data).rows[3].engagement_rate
    /\ FLt(Val(analytics_data).rows[1].engagement_rate, Val(analytics_data).rows[2].engagement_rate)
    /\ Len(Val(result).value.rows) = 2

(* a find_optimal_posting_times call was made *)
AskedTimes == call # None /\ Val(call).fn = "find_optimal_posting_times"

(* the value is a mapping with exactly the seven weekdays as keys, Monday  *)
(* first                                                                   *)
SevenDays(v) ==
    /\ Len(v) = 7
    /\ v[1].day = "Monday" /\ v[2].day = "Tuesday" /\ v[3].day = "Wednesday"
    /\ v[4].day = "Thursday" /\ v[5].day = "Friday" /\ v[6].day = "Saturday"
    /\ v[7].day = "Sunday"

(* C13: for every dataset given to Analytics, an empty table and a table   *)
(* without an hour column included, find_optimal_posting_times returns a   *)
(* mapping with exactly the seven keys Monday to Sunday, in that order.    *)
C13_SevenWeekdayKeys ==
    AskedTimes => (~Val(result).raised /\ SevenDays(Val(result).value))

(* what C13 says, for the tables with an hour column on which the call     *)
(* returns                                                                 *)
SevenWeekdayKeysWhenReturned ==
    (AskedTimes /\ ~Val(result).raised /\ "hour" \in Val(analytics_data).columns)
        => SevenDays(Val(result).value)

(* the call returned the seven weekdays for an empty table *)
SevenKeysForEmptyTable ==
    /\ AskedTimes
    /\ Len(Val(analytics_data).rows) = 0
    /\ ~Val(result).raised
    /\ SevenDays(Val(result).value)

(* the hour a string "HH:00" names, or -1 *)
HourNamed(e) ==
    IF /\ Len(e) = 5 /\ e[3] = ":" /\ e[4] = "0" /\ e[5] = "0"
       /\ \E a, b \in 1..10 : Digits[a] = e[1] /\ Digits[b] = e[2]
    THEN 10 * ((CHOOSE a \in 1..10 : Digits[a] = e[1]) - 1)
            + (CHOOSE b \in 1..10 : Digits[b] = e[2]) - 1
    ELSE -1

(* the rows of a weekday, and of one of its hours *)
RowsOfDay(in, day) == SelectSeq(in, LAMBDA r : r.date.k = "ts" /\ day_name(r.date) = day)
RowsOfHour(in, day, h) == SelectSeq(RowsOfDay(in, day), LAMBDA r : r.date.v % HoursPerDay = h)
HoursOfDay(in, day) ==
    {RowsOfDay(in, day)[i].date.v % HoursPerDay : i \in 1..Len(RowsOfDay(in, day))}

(* the list of times is right for the weekday: min(3, hours posted at)     *)
(* hours of the day, as "HH:00", ascending, none with a smaller mean       *)
(* engagement_rate than an hour left out; "No data" for a day without rows *)
TimesOfDay(in, day, times) ==
    IF Len(RowsOfDay(in, day)) = 0 THEN times = <<NoData>>
    ELSE LET hs == HoursOfDay(in, day)
             listed == {HourNamed(times[i]) : i \in 1..Len(times)}
         IN  /\ Len(times) = (IF Cardinality(hs) < 3 THEN Cardinality(hs) ELSE 3)
             /\ listed \subseteq hs
             /\ \A i, k \in 1..Len(times) : i < k => HourNamed(times[i]) < HourNamed(times[k])
             /\ \A h \in listed, g \in hs \ listed :
                   ~FLt(mean(RowsOfHour(in, day, h), "engagement_rate"),
                        mean(RowsOfHour(in, day, g), "engagement_rate"))

(* C14: for each weekday with a row, find_optimal_posting_times lists      *)
(* min(3, distinct hours posted at that day) entries, the hours with the   *)
(* largest mean engagement_rate, as zero-padded "HH:00", ascending by      *)
(* hour; a weekday without rows maps to the single entry "No data".        *)
C14_TopThreeHoursPerDay ==
    (AskedTimes /\ "hour" \in Val(analytics_data).columns) =>
        /\ ~Val(result).raised
        /\ \A d \in 1..7 :
              /\ Len(Val(result).value) >= d
              /\ TimesOfDay(Val(analytics_data).rows, DayNames[d], Val(result).value[d].times)

(* what C14 says, for the calls that return *)
TopThreeHoursPerDayWhenReturned ==
    (AskedTimes /\ "hour" \in Val(analytics_data).columns /\ ~Val(result).raised) =>
        \A d \in 1..7 :
            TimesOfDay(Val(analytics_data).rows, DayNames[d], Val(result).value[d].times)

(* three of the four hours of a Monday were listed, the hour left out      *)
(* having the smallest mean                                                *)
ThreeOfFourHoursListed ==
    /\ AskedTimes /\ ~Val(result).raised
    /\ HoursOfDay(Val(analytics_data).rows, "Monday") = {0, 9, 12, 18}
    /\ Val(result).value[1].times =
          <<<<"0", "0", ":", "0", "0">>, <<"1", "2", ":", "0", "0">>,
            <<"1", "8", ":", "0", "0">>>>
    /\ Val(result).value[2].times = <<NoData>>

(* the call raised on a table with a dated and an undated post *)
TimesRaisedOnMissingDate ==
    /\ AskedTimes /\ Val(result).raised
    /\ Len(Val(analytics_data).rows) = 2
    /\ Val(analytics_data).rows[1].date.k = "ts"
    /\ Val(analytics_data).rows[2].date.k = "nat"

(* a get_trend_analysis call returned *)
GotTrends ==
    /\ call # None /\ Val(call).fn = "get_trend_analysis"
    /\ ~Val(result).raised

(* the places of the rows dated no more than days before the last date *)
Window(in, days) ==
    LET dated == {j \in 1..Len(in) : in[j].date.k = "ts"}
    IN  {j \in dated :
            \E m \in dated : /\ \A u \in dated : in[m].date.v >= in[u].date.v
                             /\ in[j].date.v >= in[m].date.v - days * HoursPerDay}

(* a is the mean of col over the rows of in at the places W *)
IsMean(a, in, W, col) ==
    a = mean(SelectSeq(in, LAMBDA r : r.index \in {in[j].index : j \in W}), col)

(* the trends are those of the window W of in *)
TrendsOf(t, in, W) ==
    /\ ~t.empty
    /\ t.total_posts = Cardinality(W)
    /\ IsMean(t.avg_likes, in, W, "likes")
    /\ IsMean(t.avg_comments, in, W, "comments")
    /\ IsMean(t.avg_engagement_rate, in, W, "engagement_rate")
    /\ t.total_reach = Num(SetSum(W, [j \in W |-> in[j].reach.n]))
    /\ \E j \in W : /\ in[j] = t.best_post
                    /\ \A i \in W : ~FLt(in[j].engagement_rate, in[i].engagement_rate)

(* C15: get_trend_analysis(days) considers exactly the rows with           *)
(* date >= (max date) - days and reports their count, mean likes, mean     *)
(* comments, mean engagement_rate, summed reach and as best_post a row of  *)
(* the window with maximal engagement_rate; it returns an empty result     *)
(* exactly when the window has no rows, which never happens for a table    *)
(* that is not empty.                                                      *)
C15_TrendsOfWindow ==
    GotTrends =>
        LET in == Val(analytics_data).rows
            W == Window(in, Val(call).arg)
        IN  /\ Val(result).value.empty = (W = {})
            /\ Len(in) > 0 => W # {}
            /\ W # {} => TrendsOf(Val(result).value, in, W)

(* what C15 says, but for the window of a table that is not empty *)
TrendsOfWindowWhenAny ==
    GotTrends =>
        LET in == Val(analytics_data).rows
            W == Window(in, Val(call).arg)
        IN  /\ Val(result).value.empty = (W = {})
            /\ (\E j \in 1..Len(in) : in[j].date.k = "ts") => W # {}
            /\ W # {} => TrendsOf(Val(result).value, in, W)

(* the trends of the last week left out a post of the week before *)
TrendsLeftOutOlderPost ==
    /\ GotTrends
    /\ Val(call).arg = DaysPerWeek
    /\ Len(Val(analytics_data).rows) = 3
    /\ Val(analytics_data).rows[1].date = Timestamp(0)
    /\ ~Val(result).value.empty
    /\ Val(result).value.total_posts = 2

(* the step uploads the CSV export of the processed data *)
ReuploadStep ==
    /\ processed_data # None
    /\ uploaded_file' = Some(read_csv_of_to_csv(Val(processed_data)))

(* the derived columns of a row *)
Derived(r) ==
    <<r.engagement, r.engagement_rate, r.day_of_week, r.hour, r.month, r.week,
      r.hashtag_count>>

(* the columns of a row that the file gave *)
Given(r) == <<r.date, r.likes, r.comments, r.reach, r.impressions, r.post_type, r.hashtags>>

(* C16: enrichment is stable under re-application: process_data(D) taken   *)
(* as the input again, as after a CSV export and re-upload, passes         *)
(* validation, and re-enriching it yields the same row order and the same  *)
(* derived columns as process_data(D).                                     *)
C16_ReenrichmentSameOrder ==
    [][ReuploadStep =>
          /\ validate_data(Val(uploaded_file'))
          /\ messages' # <<>> /\ messages'[1] = "success"
          /\ Len(Val(processed_data').rows) = Len(Val(processed_data).rows)
          /\ \A i \in 1..Len(Val(processed_data).rows) :
                /\ Given(Val(processed_data').rows[i]) = Given(Val(processed_data).rows[i])
                /\ Derived(Val(processed_data').rows[i]) = Derived(Val(processed_data).rows[i])
      ]_vars

(* C16, amended: the re-upload passes validation, and re-enriching yields  *)
(* the same rows with the same derived columns, in date order; only rows   *)
(* that carry the same date may change places.                             *)
C16_ReenrichmentSameRowsUpToTies ==
    [][ReuploadStep =>
          /\ validate_data(Val(uploaded_file'))
          /\ messages' # <<>> /\ messages'[1] = "success"
          /\ Val(processed_data').columns = Val(processed_data).columns
          /\ Len(Val(processed_data').rows) = Len(Val(processed_data).rows)
          /\ \E p \in Perms(Len(Val(processed_data).rows)) :
                \A i \in 1..Len(Val(processed_data).rows) :
                    LET new == Val(processed_data').rows[i]
                        old == Val(processed_data).rows[p[i]]
                    IN  /\ Given(new) = Given(old)
                        /\ Derived(new) = Derived(old)
                        /\ new.index = i - 1
                        /\ new.date = Val(processed_data).rows[i].date
                        /\ (p[i] # i => new.date.k = "ts")
      ]_vars

(* an export of two posts of different days and hours, one without         *)
(* hashtags, was uploaded and enriched again                               *)
C16_Witness ==
    /\ uploaded_file # None /\ processed_data # None
    /\ "engagement_rate" \in Val(uploaded_file).columns
    /\ messages # <<>> /\ messages[1] = "success"
    /\ Len(Val(processed_data).rows) = 2
    /\ Val(processed_data).rows[1].hour = Num(9)
    /\ Val(processed_data).rows[2].date.k = "ts"
    /\ Val(processed_data).rows[2].day_of_week = "Tuesday"

(* the entries the calendar has for a date string *)
EntriesAt(calendar, d) == {e \in calendar : e.key = d}

(* the last call on the planner was fn *)
Called(fn) == planner_call # None /\ Val(planner_call).fn = fn

(* C17: after any sequence of add, update and delete calls the calendar    *)
(* holds at most one item per date string; an item exists for d exactly    *)
(* when the most recent add or delete on d was an add; an add on an        *)
(* occupied date replaces the previous item by the new one.                *)
C17_OneItemPerDateLastAddWins ==
    /\ \A d \in CalendarDates :
          /\ Cardinality(EntriesAt(content_calendar, d)) <= 1
          /\ (EntriesAt(content_calendar, d) # {}) = (last_change[d] \in {"add", "replace"})
    /\ Called("add_calendar_item") =>
          \A e \in EntriesAt(content_calendar, Val(planner_call).key) :
              e.value.created_at = clock - 1 /\ e.value.status = "planned"

(* an add was made on a date that had an item, and only the new item is    *)
(* there; an item of the other date was deleted                            *)
C17_Witness ==
    /\ Called("add_calendar_item")
    /\ last_change[Val(planner_call).key] = "replace"
    /\ \E e \in content_calendar :
          /\ e.key = Val(planner_call).key
          /\ e.value.created_at = clock - 1
          /\ content_calendar = {e}
    /\ \E d \in CalendarDates : last_change[d] = "delete"

(* the step is a call of fn *)
CallStep(fn) == planner_call' # None /\ Val(planner_call').fn = fn

(* the item new is the item old with only the field changed to the value *)
OnlyFieldChanged(old, new, field, value) ==
    /\ new[field] = value
    /\ \A g \in {"content_type", "caption", "hashtags", "notes", "created_at", "status"} :
          g # field => new[g] = old[g]

(* C18: update_calendar_item(d, field, value) changes only the named field *)
(* of the item at d and leaves its other fields, the other items and the   *)
(* ideas unchanged; when no item is stored at d, update and delete change  *)
(* nothing and create no item.                                             *)
C18_UpdateChangesOnlyTheField ==
    [][/\ CallStep("update_calendar_item") =>
             LET d == Val(planner_call').key
             IN  /\ content_ideas' = content_ideas
                 /\ \A e \in CalendarDates \ {d} :
                       EntriesAt(content_calendar', e) = EntriesAt(content_calendar, e)
                 /\ IF EntriesAt(content_calendar, d) = {}
                    THEN content_calendar' = content_calendar
                    ELSE \E old \in EntriesAt(content_calendar, d) :
                            \E new \in EntriesAt(content_calendar', d) :
                               /\ EntriesAt(content_calendar', d) = {new}
                               /\ OnlyFieldChanged(old.value, new.value,
                                                   Val(planner_call').field,
                                                   Val(planner_call').value)
       /\ (CallStep("delete_calendar_item")
              /\ EntriesAt(content_calendar, Val(planner_call').key) = {})
             => /\ content_calendar' = content_calendar
                /\ content_ideas' = content_ideas
      ]_vars

(* the item of one date was marked posted while the other date kept its    *)
(* planned item and an idea was stored                                     *)
C18_Witness ==
    /\ Called("update_calendar_item")
    /\ Val(planner_call).field = "status"
    /\ \E e \in content_calendar :
          e.key = Val(planner_call).key /\ e.value.status = "posted"
    /\ \E e \in content_calendar :
          e.key # Val(planner_call).key /\ e.value.status = "planned"
    /\ Len(content_ideas) = 1

(* C19: idea ids are not reused: the id of a newly added idea differs from *)
(* the id of every idea created earlier, so the stored ideas have pairwise *)
(* distinct ids.                                                           *)
C19_IdeaIdsDistinct ==
    \A i, j \in 1..Len(content_ideas) :
        i # j => content_ideas[i].id # content_ideas[j].id

(* what C19 says, as long as no idea was deleted: the ids are 1..n *)
IdsDenseWithoutDeletion ==
    [][(\A i \in 1..Len(content_ideas) : content_ideas[i].id = i)
          /\ ~CallStep("delete_content_idea")
          => \A i \in 1..Len(content_ideas') : content_ideas'[i].id = i]_vars

(* C20: an idea is created with used = False; the flag changes only by     *)
(* mark_idea_as_used and only from False to True; once True it stays True  *)
(* for as long as the idea is stored.  An idea is told by its created_at.  *)
C20_UsedOnlyRises ==
    [][\A j \in 1..Len(content_ideas') :
          LET new == content_ideas'[j]
              before == {i \in 1..Len(content_ideas) :
                            content_ideas[i].created_at = new.created_at}
          IN  /\ before = {} => ~new.used
              /\ \A i \in before :
                    /\ content_ideas[i].used => new.used
                    /\ content_ideas[i].used # new.used => CallStep("mark_idea_as_used")
      ]_vars

(* the first of two ideas was marked and is used, the other one is not *)
C20_Witness ==
    /\ Called("mark_idea_as_used")
    /\ Len(content_ideas) = 2
    /\ content_ideas[1].used /\ content_ideas[1].id = Val(planner_call).key
    /\ ~content_ideas[2].used
    /\ clock = MaxCalls

(* the last handler of a planner page that ran was fn *)
Ran(fn) == planner_call # None /\ Val(planner_call).fn = fn

(* C21: in every state reachable through the calendar and ideas pages each *)
(* stored calendar item has status "planned" or "posted".                  *)
C21_StatusPlannedOrPosted ==
    \A e \in content_calendar : e.value.status \in {"planned", "posted"}

(* Mark Posted was pressed on one item, which is posted, while the item of *)
(* the other date is planned                                               *)
C21_Witness ==
    /\ Ran("posted")
    /\ \E e \in content_calendar :
          e.key = Val(planner_call).key /\ e.value.status = "posted"
    /\ \E e \in content_calendar :
          e.key # Val(planner_call).key /\ e.value.status = "planned"

(* the fields of a stored calendar item *)
ItemFields == {"content_type", "caption", "hashtags", "notes", "status", "created_at"}

(* the export out has one record per item of the calendar, and the record  *)
(* of an item carries its date key and its fields among F                  *)
ExportCarries(out, calendar, F) ==
    /\ Cardinality(out) = Cardinality(calendar)
    /\ \A e \in calendar :
          \E r \in out :
             /\ r.date = e.key
             /\ DOMAIN r = {"date"} \cup F
             /\ \A f \in F : r[f] = e.value[f]

(* C22: export_calendar_data emits, as CSV and as JSON, one record per     *)
(* stored item carrying the date key, content_type, caption, hashtags,     *)
(* notes, status and the creation timestamp.                               *)
C22_ExportCarriesFullFieldSet ==
    (Called("export_calendar_data") /\ Val(planner_call).key \in {"csv", "json"})
       => ExportCarries(Val(planner_call).value, content_calendar, ItemFields)

(* what the code does: the JSON export carries every field, the CSV export *)
(* every field but created_at                                              *)
ExportCarriesAllButCreatedAtInCsv ==
    Called("export_calendar_data") =>
       LET out == Val(planner_call).value
       IN  CASE Val(planner_call).key = "json" ->
                   ExportCarries(out, content_calendar, ItemFields)
             [] Val(planner_call).key = "csv" ->
                   ExportCarries(out, content_calendar, ItemFields \ {"created_at"})
             [] OTHER -> out = {}

(* processed_data is what process_data makes of the stored raw data *)
ProcessedFromStored ==
    /\ data # None
    /\ processed_data # None
    /\ ~to_datetime_raises(Val(data))
    /\ Val(processed_data) \in process_data(Val(data))

(* C23: after any sequence of uploads the stored raw data and              *)
(* processed_data are both unset, or processed_data is process_data of the *)
(* stored raw data; an upload that fails inside process_data leaves no new *)
(* raw dataset next to the processed_data of an older upload.              *)
C23_RawAndProcessedConsistent ==
    \/ data = None /\ processed_data = None
    \/ ProcessedFromStored

(* the step is a run of the page handler fn *)
RanStep(fn) == planner_call' # None /\ Val(planner_call').fn = fn

(* the step submits one of the two Add to Calendar forms *)
AddToCalendarSubmitted ==
    \/ RanStep("display_add_content_form")
    \/ RanStep("schedule_idea_form") /\ Val(planner_call').shown # "none"

(* C24: the Add to Calendar forms (Plan New Content and schedule idea)     *)
(* never overwrite a calendar item: a submission for a date that has an    *)
(* item shows an error and leaves the calendar and the ideas unchanged.    *)
C24_AddToCalendarNeverOverwrites ==
    [][AddToCalendarSubmitted =>
          /\ \A e \in content_calendar : e \in content_calendar'
          /\ dict_has(content_calendar, Val(planner_call').key) =>
                /\ Val(planner_call').shown = "error"
                /\ content_calendar' = content_calendar
                /\ content_ideas' = content_ideas
      ]_vars

(* the Plan New Content form was submitted for the date of a posted item   *)
(* and showed the error; the item is still there and an idea is stored     *)
C24_Witness ==
    /\ Ran("display_add_content_form")
    /\ Val(planner_call).shown = "error"
    /\ \E e \in content_calendar :
          e.key = Val(planner_call).key /\ e.value.status = "posted"
    /\ Len(content_ideas) = 1

(* the schedule form of an idea was submitted for a date that has an item  *)
(* and showed the error; the idea is not used                              *)
ScheduleFormShowedError ==
    /\ Ran("schedule_idea_form")
    /\ Val(planner_call).shown = "error"
    /\ dict_has(content_calendar, Val(planner_call).key)
    /\ ~content_ideas[Val(planner_call).idea].used

(* the step saves the calendar edit form *)
EditSaved == RanStep("edit_content_form") /\ Val(planner_call').shown = "success"

(* C25: saving the calendar edit form changes only content_type, caption,  *)
(* hashtags and notes of the item at that date and leaves its status and   *)
(* created_at unchanged; a posted item is still posted after the edit.     *)
C25_EditKeepsStatusAndCreatedAt ==
    [][EditSaved =>
          LET d == Val(planner_call').key
          IN  /\ \A e \in CalendarDates \ {d} :
                    EntriesAt(content_calendar', e) = EntriesAt(content_calendar, e)
              /\ content_ideas' = content_ideas
              /\ \E old \in EntriesAt(content_calendar, d) :
                    \E new \in EntriesAt(content_calendar', d) :
                       /\ EntriesAt(content_calendar', d) = {new}
                       /\ new.value.status = old.value.status
                       /\ new.value.created_at = old.value.created_at
      ]_vars

(* what the code does: the saved item is a new item, planned and created   *)
(* at the time of the edit, with the fields of the form; the other items   *)
(* and the ideas stay                                                      *)
EditSavedStoresNewPlannedItem ==
    [][EditSaved =>
          LET d == Val(planner_call').key
          IN  /\ \A e \in CalendarDates \ {d} :
                    EntriesAt(content_calendar', e) = EntriesAt(content_calendar, e)
              /\ content_ideas' = content_ideas
              /\ \E new \in EntriesAt(content_calendar', d) :
                    /\ EntriesAt(content_calendar', d) = {new}
                    /\ new.value.status = "planned"
                    /\ new.value.created_at = clock
                    /\ <<new.value.content_type, new.value.caption, new.value.notes>>
                          \in EditInputs
      ]_vars

(* the step of the schedule form either added an item at the chosen date  *)
(* and left the idea at place i used, or changed neither the calendar nor  *)
(* the flag of that idea                                                   *)
AllOrNothing(i, d) ==
    CASE Val(planner_call').shown = "success" ->
            /\ ~dict_has(content_calendar, d)
            /\ dict_has(content_calendar', d)
            /\ dict_del(content_calendar', d) = content_calendar
            /\ Len(content_ideas') = Len(content_ideas)
            /\ content_ideas'[i].used
      [] OTHER ->
            /\ Val(planner_call').shown = "error" => dict_has(content_calendar, d)
            /\ content_calendar' = content_calendar
            /\ Len(content_ideas') = Len(content_ideas)
            /\ content_ideas'[i].used = content_ideas[i].used

(* C26: scheduling an idea is all-or-nothing: after the schedule form is   *)
(* submitted either the calendar has a new item at the chosen date and the *)
(* scheduled idea itself is used, or (date occupied, or cancel) the        *)
(* calendar and the used flag of the idea are both unchanged.              *)
C26_ScheduleAllOrNothing ==
    [][RanStep("schedule_idea_form") =>
          AllOrNothing(Val(planner_call').idea, Val(planner_call').key)]_vars

(* what the code does: the schedule form is all-or-nothing for an idea     *)
(* whose id no idea before it in the list has                              *)
ScheduleAllOrNothingForFirstOfId ==
    [][(/\ RanStep("schedule_idea_form")
        /\ \A j \in 1..(Val(planner_call').idea - 1) :
              content_ideas[j].id # content_ideas[Val(planner_call').idea].id)
          => AllOrNothing(Val(planner_call').idea, Val(planner_call').key)]_vars

(* the second of two ideas with the same id was scheduled: the calendar    *)
(* has the item and the first idea is used, the scheduled one is not       *)
ScheduledIdeaLeftUnused ==
    /\ Ran("schedule_idea_form")
    /\ Val(planner_call).shown = "success"
    /\ dict_has(content_calendar, Val(planner_call).key)
    /\ ~content_ideas[Val(planner_call).idea].used
    /\ content_ideas[1].used

(* the list without its element at place i *)
Without(list, i) == [j \in 1..(Len(list) - 1) |-> IF j < i THEN list[j] ELSE list[j + 1]]

(* C27: in any state reachable by add_content_idea, mark_idea_as_used and  *)
(* delete_content_idea, deleting an idea from the ideas list removes       *)
(* exactly that idea: the list is one shorter and the other ideas stay,    *)
(* unchanged and in the same order.                                        *)
C27_DeleteRemovesExactlyOneIdea ==
    [][RanStep("delete_idea") =>
          content_ideas' = Without(content_ideas, Val(planner_call').idea)]_vars

(* what the code does: every idea with the id of the deleted one goes, so  *)
(* exactly one idea goes when no other idea has that id                    *)
DeleteRemovesAllOfId ==
    [][RanStep("delete_idea") =>
          LET i == Val(planner_call').idea
          IN  /\ content_ideas' =
                    SelectSeq(content_ideas, LAMBDA x : x.id # content_ideas[i].id)
              /\ (\A j \in 1..Len(content_ideas) :
                      j # i => content_ideas[j].id # content_ideas[i].id)
                    => content_ideas' = Without(content_ideas, i)]_vars

(* C28: in any state reachable by add_content_idea, mark_idea_as_used and  *)
(* delete_content_idea, pressing Mark as Used on a displayed unused idea   *)
(* sets used = True on that very idea and on no other idea.                *)
C28_MarkAsUsedMarksThatIdea ==
    [][RanStep("use") =>
          content_ideas' =
             [content_ideas EXCEPT ![Val(planner_call').idea].used = TRUE]]_vars

(* what the code does: the first idea with the id of the pressed one is    *)
(* marked, which is the pressed one when no idea before it has that id     *)
MarkAsUsedMarksFirstOfId ==
    [][RanStep("use") =>
          LET i == Val(planner_call').idea
              first == CHOOSE j \in 1..i :
                          /\ content_ideas[j].id = content_ideas[i].id
                          /\ \A k \in 1..(j - 1) : content_ideas[k].id # content_ideas[i].id
          IN  content_ideas' = [content_ideas EXCEPT ![first].used = TRUE]]_vars

(* the rows of a DataFrame, as a set *)
RowSet(df) == {df.rows[i] : i \in 1..Len(df.rows)}

(* the last filter was the one of the Reports page *)
ReportsFiltered == filter_args # None /\ "fn" \in DOMAIN Val(filter_args)

(* the last filter was the one of the Analytics page, all post types of    *)
(* the data selected                                                       *)
AnalyticsFilteredAllTypes ==
    /\ filter_args # None
    /\ "post_types" \in DOMAIN Val(filter_args)
    /\ Val(filter_args).post_types = Some(unique_post_types(Val(processed_data)))

(* C29: for the same enriched dataset and the same start and end calendar  *)
(* dates, all post types selected, the date filter of the Analytics page   *)
(* (filter_data with the dates converted to timestamps) and                *)
(* filter_data_by_date of the Reports page select the same set of rows,    *)
(* also the rows of the end date at a time later than 00:00.               *)
C29_AnalyticsAndReportsSelectSameRows ==
    /\ ReportsFiltered =>
          RowSet(Val(filtered_data)) =
             RowSet(filter_data(Val(processed_data),
                                Some(Timestamp(Val(filter_args).start_date * HoursPerDay)),
                                Some(Timestamp(Val(filter_args).end_date * HoursPerDay)),
                                Some(unique_post_types(Val(processed_data)))))
    /\ AnalyticsFilteredAllTypes =>
          RowSet(Val(filtered_data)) =
             RowSet(filter_data_by_date(Val(processed_data),
                                        DayOf(Val(Val(filter_args).start_date)),
                                        DayOf(Val(Val(filter_args).end_date))))

(* what the code does: the Analytics page selects the rows of the Reports  *)
(* page but those of the end day at a time after 00:00                     *)
AnalyticsLeavesOutRestOfEndDay ==
    AnalyticsFilteredAllTypes =>
       LET end == Val(Val(filter_args).end_date)
           reports == RowSet(filter_data_by_date(Val(processed_data),
                                                 DayOf(Val(Val(filter_args).start_date)),
                                                 DayOf(end)))
       IN  RowSet(Val(filtered_data)) = {r \in reports : r.date.v <= end.v}

(* the Reports page selected a post of 09:00 on the end day *)
ReportsSelectedPostOfEndDay ==
    /\ ReportsFiltered
    /\ \E r \in RowSet(Val(filtered_data)) :
          /\ DayOf(r.date) = Val(filter_args).end_date
          /\ hour_of(r.date) = Num(9)

(* the sum of the counts of a dict of counts *)
RECURSIVE SumOfCounts(_)
SumOfCounts(counts) ==
    IF counts = {} THEN 0
    ELSE LET e == CHOOSE x \in counts : TRUE
         IN  e.value + SumOfCounts(counts \ {e})

(* the statistics stats are those of the calendar and the ideas *)
StatsOf(stats, calendar, ideas) ==
    /\ stats.total_planned_posts = Cardinality(calendar)
    /\ stats.total_planned_posts = SumOfCounts(stats.content_types)
    /\ \A c, e \in stats.content_types : c.key = e.key => c = e
    /\ 0 <= stats.upcoming_posts_7_days
    /\ stats.upcoming_posts_7_days <= stats.upcoming_posts_30_days
    /\ stats.upcoming_posts_30_days <= stats.total_planned_posts
    /\ stats.total_ideas = Len(ideas)
    /\ 0 <= stats.unused_ideas
    /\ stats.unused_ideas <= stats.total_ideas

(* C30: in every reachable state of the session store get_calendar_stats   *)
(* gives total_planned_posts = the number of calendar items = the sum of   *)
(* the content_types counts, 0 <= upcoming_posts_7_days <=                 *)
(* upcoming_posts_30_days <= total_planned_posts, total_ideas = the number *)
(* of ideas and 0 <= unused_ideas <= total_ideas; the call changes neither *)
(* the calendar nor the ideas.                                             *)
C30_CalendarStatsConsistent ==
    /\ [](Called("get_calendar_stats") =>
             StatsOf(Val(planner_call).value, content_calendar, content_ideas))
    /\ [][CallStep("get_calendar_stats") =>
             UNCHANGED <<content_calendar, content_ideas>>]_vars

(* the statistics of a calendar of two items of different types, one of    *)
(* them within a week and both within thirty days, and of one idea, which  *)
(* is used                                                                 *)
C30_Witness ==
    /\ Called("get_calendar_stats")
    /\ LET stats == Val(planner_call).value
       IN  /\ stats.total_planned_posts = 2
           /\ Cardinality(stats.content_types) = 2
           /\ stats.upcoming_posts_7_days = 1
           /\ stats.upcoming_posts_30_days = 2
           /\ stats.total_ideas = 1
           /\ stats.unused_ideas = 0
    /\ Cardinality(content_calendar) = 2
    /\ Len(content_ideas) = 1

====
